---------------------------- MODULE Spec2Model ----------------------------
(***************************************************************************)
(* A model of AmmImpl (ts-client/src/amm/index.ts): the held snapshot      *)
(* (poolState, vault states, accountsInfo, poolInfo, swapCurve), its       *)
(* asynchronous refresh by updateState, and the synchronous quote          *)
(* operations that read it.                                                *)
(*                                                                         *)
(* Amounts are BN values (unbounded non-negative integers).  A slippage    *)
(* is a percentage with at most two decimals; the model carries it in      *)
(* hundredths of a percent (basis points), so slippage 1% is 100.          *)
(***************************************************************************)
EXTENDS Integers, Sequences, FiniteSets, TLC

(***************************************************************************)
(* Bounds of the model and the values inputs are drawn from.               *)
(***************************************************************************)
\* largest amount a caller passes to a quote operation
MaxInput == 2
\* number of transactions the remote ledger processes during a run
MaxGen == 1
\* number of updateState calls made on one AmmImpl
MaxCalls == 2

Inputs == 0..MaxInput
\* slippages a caller passes: 0%, 1%, 100%
Slippages == {0, 100, 10000}
CurveTypes == {"constantProduct", "stable"}
\* the two mints of the pool and a mint foreign to it
TokenAMint == "A"
TokenBMint == "B"
ForeignMint == "X"
Mints == {TokenAMint, TokenBMint, ForeignMint}
\* the absent optional tokenMint argument of getWithdrawQuote
NoMint == "undefined"

\* fee schedules of a pool: no fee, a quarter with a half for the owner,
\* and a half for each
FeeSchedules ==
    { [ tradeFeeNumerator |-> 0, tradeFeeDenominator |-> 10000,
        ownerTradeFeeNumerator |-> 0, ownerTradeFeeDenominator |-> 10000 ],
      [ tradeFeeNumerator |-> 1, tradeFeeDenominator |-> 4,
        ownerTradeFeeNumerator |-> 1, ownerTradeFeeDenominator |-> 2 ],
      [ tradeFeeNumerator |-> 1, tradeFeeDenominator |-> 2,
        ownerTradeFeeNumerator |-> 1, ownerTradeFeeDenominator |-> 2 ] }

\* One side of a pool on the ledger: the vault shares the pool holds
\* (poolVaultLp) out of the vault's share supply (lpSupply), the vault's
\* total amount, the part of it locked as unreleased profit, and the part
\* held in the vault's token account (reserve).
Side(poolVaultLp, lpSupply, totalAmount, lockedProfit, reserve) ==
    [ poolVaultLp |-> poolVaultLp, lpSupply |-> lpSupply,
      totalAmount |-> totalAmount, lockedProfit |-> lockedProfit,
      reserve |-> reserve ]

Sides ==
    { Side(0, 0, 0, 0, 0),    \* an empty vault
      Side(0, 2, 3, 0, 3),    \* the pool holds no share of the vault
      Side(2, 2, 2, 0, 2),    \* the pool holds every share, one token each
      Side(2, 3, 5, 1, 1),    \* uneven share price, locked profit, low reserve
      Side(1, 1, 0, 0, 0),    \* shares of a vault with nothing to withdraw
      Side(3, 4, 3, 0, 3) }   \* a share is worth less than a token

\* liquidity-token supplies of a pool
PoolLpSupplies == {0, 1, 3}
\* ledger clock values: at the vaults' last report, and after it
Clocks == {0, 1}

(***************************************************************************)
(* BN arithmetic.                                                          *)
(***************************************************************************)
Min(x, y) == IF x < y THEN x ELSE y

Abs(x) == IF x < 0 THEN -x ELSE x

\* BN.div: division truncating towards zero.  A zero divisor throws; every
\* caller below tests for it before dividing.
div(x, y) ==
    IF (x < 0) = (y < 0) THEN Abs(x) \div Abs(y) ELSE -(Abs(x) \div Abs(y))

\* BN.divRound: rounds to the nearest integer, halves up.
divRound(x, y) ==
    IF x % y = 0 THEN x \div y
    ELSE IF 2 * (x % y) >= y THEN (x \div y) + 1 ELSE x \div y

\* integer square root, BN-style (largest r with r * r <= n)
sqrt(n) ==
    IF n <= 0 THEN 0
    ELSE CHOOSE r \in 0..n : r * r <= n /\ (r + 1) * (r + 1) > n

(***************************************************************************)
(* Helpers of utils and constants, and the vault's withdrawable amount.    *)
(***************************************************************************)
\* the fixed buffer taken off a balanced deposit's share, in basis points
UNLOCK_AMOUNT_BUFFER == 100

getMinAmountWithSlippage(amount, slippageRate) ==
    div(amount * (10000 - slippageRate), 10000)

getMaxAmountWithSlippage(amount, slippageRate) ==
    div(amount * (10000 + slippageRate), 10000)

\* Locked profit is released once the clock has passed the last report.
calculateWithdrawableAmount(currentTime, vaultState) ==
    IF currentTime > 0
    THEN vaultState.totalAmount
    ELSE vaultState.totalAmount - vaultState.lockedProfit

(***************************************************************************)
(* AmmImpl's private share conversions.                                    *)
(***************************************************************************)
\* getShareByAmount rounding to the nearest whatever roundUp says
getShareByAmount_AlwaysRounds(amount, tokenAmount, lpSupply, roundUp) ==
    IF tokenAmount = 0 THEN 0
    ELSE divRound(amount * lpSupply, tokenAmount)

getShareByAmount(amount, tokenAmount, lpSupply, roundUp) ==
    IF tokenAmount = 0 THEN 0
    ELSE IF roundUp THEN divRound(amount * lpSupply, tokenAmount)
    ELSE div(amount * lpSupply, tokenAmount)

getAmountByShare(amount, tokenAmount, lpSupply, roundUp) ==
    IF lpSupply = 0 THEN 0
    ELSE IF roundUp THEN divRound(amount * tokenAmount, lpSupply)
    ELSE div(amount * tokenAmount, lpSupply)

computeActualInAmount(poolTokenAmount, poolLpSupply, poolVaultALp, poolVaultBLp, vaultALpSupply, vaultBLpSupply, vaultAWithdrawableAmount, vaultBWithdrawableAmount) ==
    LET aVaultLpMinted == getShareByAmount(poolTokenAmount, poolLpSupply, poolVaultALp, TRUE)
        bVaultLpMinted == getShareByAmount(poolTokenAmount, poolLpSupply, poolVaultBLp, TRUE)
    IN  << getAmountByShare(aVaultLpMinted, vaultAWithdrawableAmount, vaultALpSupply, TRUE),
           getAmountByShare(bVaultLpMinted, vaultBWithdrawableAmount, vaultBLpSupply, TRUE) >>

(***************************************************************************)
(* The swap curve.  create and updateState always install a                *)
(* ConstantProductSwap, so only that variant is modelled.                  *)
(***************************************************************************)
ConstantProductSwap == "ConstantProductSwap"
AToB == "AToB"
BToA == "BToA"

\* the invariant value of a pair of amounts
computeD(tokenAAmount, tokenBAmount) == sqrt(tokenAAmount * tokenBAmount)

\* a quotient rounded up, to the next integer away from zero
ceilDiv(x, y) ==
    IF (Abs(x) % Abs(y)) = 0 THEN div(x, y)
    ELSE IF (x < 0) = (y < 0) THEN div(x, y) + 1 ELSE div(x, y) - 1

RECURSIVE gcd(_, _)
gcd(x, y) == IF y = 0 THEN x ELSE gcd(y, x % y)

\* The fraction x * y / z as a pair << numerator, denominator >> with the
\* factors common to z and x, and to z and y, cancelled (z # 0).  BN
\* products are unbounded; cancelling first keeps the product small and
\* leaves the quotient and its remainder's sign unchanged.
mulOver(x, y, z) ==
    LET g == gcd(Abs(z), Abs(x))
        z1 == div(z, g)
        h == gcd(Abs(z1), Abs(y))
    IN  << div(x, g) * div(y, h), div(z1, h) >>

\* computeOutAmount at the pool's current ratio, off the curve
computeOutAmount_AtRatio(sourceAmount, swapSourceAmount, swapDestinationAmount, tradeDirection) ==
    IF swapSourceAmount = 0 THEN 0
    ELSE LET f == mulOver(sourceAmount, swapDestinationAmount, swapSourceAmount)
         IN  div(f[1], f[2])

\* computeOutAmount with the invariant's quotient rounded down
computeOutAmount_QuotientDown(sourceAmount, swapSourceAmount, swapDestinationAmount, tradeDirection) ==
    IF swapSourceAmount + sourceAmount = 0 THEN 0
    ELSE LET f == mulOver(swapSourceAmount, swapDestinationAmount, swapSourceAmount + sourceAmount)
         IN  swapDestinationAmount - div(f[1], f[2])

\* amountOut = reserveOut - (reserveIn * reserveOut) / (reserveIn + amountIn),
\* truncated to an integer: the quotient, which is what stays in the pool,
\* is rounded up (1,000,000 - 10^12 / 1,010,000 is 9,900).  A zero
\* denominator yields 0.
computeOutAmount(sourceAmount, swapSourceAmount, swapDestinationAmount, tradeDirection) ==
    IF swapSourceAmount + sourceAmount = 0 THEN 0
    ELSE LET f == mulOver(swapSourceAmount, swapDestinationAmount, swapSourceAmount + sourceAmount)
         IN  swapDestinationAmount - ceilDiv(f[1], f[2])

\* the inverse of computeOutAmount; a zero denominator yields 0
computeInAmount(destAmount, swapSourceAmount, swapDestinationAmount, tradeDirection) ==
    IF swapDestinationAmount - destAmount = 0 THEN 0
    ELSE div(swapSourceAmount * swapDestinationAmount, swapDestinationAmount - destAmount)
           - swapSourceAmount

tradingFee(amount, fees) ==
    div(amount * fees.tradeFeeNumerator, fees.tradeFeeDenominator)

\* Values the deposited pair against the pre-deposit ratio and charges the
\* trade fee on the imbalanced portion before minting.
computeImbalanceDeposit(depositAAmount, depositBAmount, swapTokenAAmount, swapTokenBAmount, lpSupply, fees) ==
    LET d0 == computeD(swapTokenAAmount, swapTokenBAmount)
        newA == swapTokenAAmount + depositAAmount
        newB == swapTokenBAmount + depositBAmount
        d1 == computeD(newA, newB)
        idealA == IF d0 = 0 THEN 0 ELSE div(swapTokenAAmount * d1, d0)
        idealB == IF d0 = 0 THEN 0 ELSE div(swapTokenBAmount * d1, d0)
        feeA == tradingFee(Abs(newA - idealA), fees)
        feeB == tradingFee(Abs(newB - idealB), fees)
        d2 == computeD(newA - feeA, newB - feeB)
    IN  IF d0 = 0 THEN 0 ELSE div(lpSupply * (d2 - d0), d0)

\* A balanced withdrawal followed by one swap step in the chosen direction,
\* on which the trade fee is charged.
computeWithdrawOne(lpAmount, lpSupply, swapTokenAAmount, swapTokenBAmount, fees, tradeDirection) ==
    LET outA == IF lpSupply = 0 THEN 0 ELSE div(lpAmount * swapTokenAAmount, lpSupply)
        outB == IF lpSupply = 0 THEN 0 ELSE div(lpAmount * swapTokenBAmount, lpSupply)
        restA == swapTokenAAmount - outA
        restB == swapTokenBAmount - outB
    IN  IF tradeDirection = AToB
        THEN LET inAfterFee == outA - tradingFee(outA, fees)
             IN  outB + computeOutAmount(inAfterFee, restA, restB, AToB)
        ELSE LET inAfterFee == outB - tradingFee(outB, fees)
             IN  outA + computeOutAmount(inAfterFee, restB, restA, BToA)

(***************************************************************************)
(* utils: the pool snapshot aggregator and the deposit helper.             *)
(***************************************************************************)
\* tokenXAmount = amountFromShare(poolShareOfVaultX, vaultXWithdrawable,
\* vaultXShareSupply), rounded down; the virtual price is the pool's value
\* per liquidity token (0 stands for "undefined" when the supply is zero).
calculatePoolInfo(currentTime, poolVaultALp, poolVaultBLp, vaultALpSupply, vaultBLpSupply, poolLpSupply, curve, vaultAState, vaultBState) ==
    LET tokenAAmount == getAmountByShare(poolVaultALp, calculateWithdrawableAmount(currentTime, vaultAState), vaultALpSupply, FALSE)
        tokenBAmount == getAmountByShare(poolVaultBLp, calculateWithdrawableAmount(currentTime, vaultBState), vaultBLpSupply, FALSE)
    IN  [ tokenAAmount |-> tokenAAmount,
          tokenBAmount |-> tokenBAmount,
          virtualPriceRaw |-> IF poolLpSupply = 0 THEN 0
                              ELSE div(computeD(tokenAAmount, tokenBAmount), poolLpSupply) ]

\* The amount the pool's claim grows by when depositAmount goes through the
\* vault: the deposit is turned into vault shares and back.
computeActualDepositAmount(depositAmount, beforeAmount, vaultLpBalance, vaultLpSupply, vaultTotalAmount) ==
    IF depositAmount = 0 THEN 0
    ELSE LET vaultLpMinted == getShareByAmount(depositAmount, vaultTotalAmount, vaultLpSupply, FALSE)
             afterAmount == getAmountByShare(vaultLpBalance + vaultLpMinted, vaultTotalAmount + depositAmount, vaultLpSupply + vaultLpMinted, FALSE)
         IN  afterAmount - beforeAmount

\* the most of tokenMint that can leave the pool: the pool's amount of it,
\* capped by what the vault holds in reserve
calculateMaxSwapOutAmount(tokenMint, tokenAAmount, tokenBAmount, vaultAReserve, vaultBReserve) ==
    IF tokenMint = TokenAMint THEN Min(tokenAAmount, vaultAReserve)
    ELSE Min(tokenBAmount, vaultBReserve)

\* The swap quote of utils: the pool's token amounts are recomputed from the
\* vault shares the pool holds, the fees are charged on the input, and the
\* curve prices the rest.  (The price impact, a decimal, is not modelled.)
calculateSwapQuote(inTokenMint, inAmountLamport, params) ==
    LET tokenAAmount == getAmountByShare(params.poolVaultALp, calculateWithdrawableAmount(params.currentTime, params.vaultA), params.vaultALpSupply, FALSE)
        tokenBAmount == getAmountByShare(params.poolVaultBLp, calculateWithdrawableAmount(params.currentTime, params.vaultB), params.vaultBLpSupply, FALSE)
        fees == params.poolState.fees
        tradeFee == tradingFee(inAmountLamport, fees)
        ownerFee == div(tradeFee * fees.ownerTradeFeeNumerator, fees.ownerTradeFeeDenominator)
        inAfterFee == inAmountLamport - tradeFee
    IN  IF inTokenMint \notin {TokenAMint, TokenBMint}
        THEN [ status |-> "error", err |-> "INVALID_MINT", amountOut |-> 0, fee |-> 0 ]
        ELSE [ status |-> "ok", err |-> "none",
               amountOut |-> IF inTokenMint = TokenAMint
                             THEN computeOutAmount(inAfterFee, tokenAAmount, tokenBAmount, AToB)
                             ELSE computeOutAmount(inAfterFee, tokenBAmount, tokenAAmount, BToA),
               fee |-> tradeFee ]

(***************************************************************************)
(* AmmImpl: the quote operations.  `self` is the AmmImpl object: a record  *)
(* of its fields poolState, poolInfo, vaultA, vaultB, accountsInfo,        *)
(* swapCurve and depegAccounts.  Every operation returns a record whose    *)
(* status is "ok" (a quote was returned) or "error" (the call threw).      *)
(***************************************************************************)
isStablePool(self) == self.poolState.curveType = "stable"

Thrown(message) == [ status |-> "error", err |-> message, regime |-> "none" ]

DepositQuote(regime, poolTokenAmountOut, minPoolTokenAmountOut, tokenAInAmount, tokenBInAmount) ==
    [ status |-> "ok", err |-> "none", regime |-> regime,
      poolTokenAmountOut |-> poolTokenAmountOut,
      minPoolTokenAmountOut |-> minPoolTokenAmountOut,
      tokenAInAmount |-> tokenAInAmount,
      tokenBInAmount |-> tokenBInAmount ]

\* balancedDepositQuote without the buffer: the slippage is applied to the
\* share itself
balancedDepositQuote_NoBuffer(self, supplied, amount, slippage) ==
    LET suppliedPoolAmount == IF supplied = TokenAMint THEN self.poolInfo.tokenAAmount ELSE self.poolInfo.tokenBAmount
        otherPoolAmount == IF supplied = TokenAMint THEN self.poolInfo.tokenBAmount ELSE self.poolInfo.tokenAAmount
        poolTokenAmountOut == getShareByAmount(amount, suppliedPoolAmount, self.accountsInfo.poolLpSupply, FALSE)
        actual == computeActualInAmount(poolTokenAmountOut, self.accountsInfo.poolLpSupply, self.accountsInfo.poolVaultALp, self.accountsInfo.poolVaultBLp, self.accountsInfo.vaultALpSupply, self.accountsInfo.vaultBLpSupply, calculateWithdrawableAmount(self.accountsInfo.currentTime, self.vaultA), calculateWithdrawableAmount(self.accountsInfo.currentTime, self.vaultB))
        regime == IF supplied = TokenAMint THEN "balancedA" ELSE "balancedB"
    IN  IF isStablePool(self)
        THEN IF suppliedPoolAmount = 0
             THEN Thrown("Assertion failed")
             ELSE LET derived == div(amount * otherPoolAmount, suppliedPoolAmount)
                  IN  DepositQuote(regime, poolTokenAmountOut,
                                   getMinAmountWithSlippage(poolTokenAmountOut, slippage),
                                   IF supplied = TokenAMint THEN amount ELSE derived,
                                   IF supplied = TokenAMint THEN derived ELSE amount)
        ELSE DepositQuote(regime, poolTokenAmountOut,
                          getMinAmountWithSlippage(poolTokenAmountOut, slippage),
                          getMaxAmountWithSlippage(actual[1], slippage),
                          getMaxAmountWithSlippage(actual[2], slippage))

\* lines 824-860 (supplied token B) and 862-898 (supplied token A): the
\* balanced deposit of one supplied amount
balancedDepositQuote(self, supplied, amount, slippage) ==
    LET suppliedPoolAmount == IF supplied = TokenAMint THEN self.poolInfo.tokenAAmount ELSE self.poolInfo.tokenBAmount
        otherPoolAmount == IF supplied = TokenAMint THEN self.poolInfo.tokenBAmount ELSE self.poolInfo.tokenAAmount
        poolTokenAmountOut == getShareByAmount(amount, suppliedPoolAmount, self.accountsInfo.poolLpSupply, FALSE)
        bufferedPoolTokenAmountOut == getMinAmountWithSlippage(poolTokenAmountOut, UNLOCK_AMOUNT_BUFFER)
        actual == computeActualInAmount(poolTokenAmountOut, self.accountsInfo.poolLpSupply, self.accountsInfo.poolVaultALp, self.accountsInfo.poolVaultBLp, self.accountsInfo.vaultALpSupply, self.accountsInfo.vaultBLpSupply, calculateWithdrawableAmount(self.accountsInfo.currentTime, self.vaultA), calculateWithdrawableAmount(self.accountsInfo.currentTime, self.vaultB))
        regime == IF supplied = TokenAMint THEN "balancedA" ELSE "balancedB"
    IN  IF isStablePool(self)
        THEN IF suppliedPoolAmount = 0
             THEN Thrown("Assertion failed")
             ELSE LET derived == div(amount * otherPoolAmount, suppliedPoolAmount)
                  IN  DepositQuote(regime, bufferedPoolTokenAmountOut,
                                   getMinAmountWithSlippage(bufferedPoolTokenAmountOut, slippage),
                                   IF supplied = TokenAMint THEN amount ELSE derived,
                                   IF supplied = TokenAMint THEN derived ELSE amount)
        ELSE DepositQuote(regime, bufferedPoolTokenAmountOut,
                          getMinAmountWithSlippage(bufferedPoolTokenAmountOut, slippage),
                          getMaxAmountWithSlippage(actual[1], slippage),
                          getMaxAmountWithSlippage(actual[2], slippage))

\* imbalanceDepositQuote with the slippage added to the minimum, as it is
\* to the maximum input amounts of the balanced deposit
imbalanceDepositQuote_MaxSlippage(self, tokenAInAmount, tokenBInAmount, slippage) ==
    LET actualDepositAAmount == computeActualDepositAmount(tokenAInAmount, self.poolInfo.tokenAAmount, self.accountsInfo.poolVaultALp, self.accountsInfo.vaultALpSupply, calculateWithdrawableAmount(self.accountsInfo.currentTime, self.vaultA))
        actualDepositBAmount == computeActualDepositAmount(tokenBInAmount, self.poolInfo.tokenBAmount, self.accountsInfo.poolVaultBLp, self.accountsInfo.vaultBLpSupply, calculateWithdrawableAmount(self.accountsInfo.currentTime, self.vaultB))
        poolTokenAmountOut == computeImbalanceDeposit(actualDepositAAmount, actualDepositBAmount, self.poolInfo.tokenAAmount, self.poolInfo.tokenBAmount, self.accountsInfo.poolLpSupply, self.poolState.fees)
    IN  DepositQuote("imbalance", poolTokenAmountOut,
                     getMaxAmountWithSlippage(poolTokenAmountOut, slippage),
                     tokenAInAmount, tokenBInAmount)

\* lines 900-931: the imbalanced deposit
imbalanceDepositQuote(self, tokenAInAmount, tokenBInAmount, slippage) ==
    LET actualDepositAAmount == computeActualDepositAmount(tokenAInAmount, self.poolInfo.tokenAAmount, self.accountsInfo.poolVaultALp, self.accountsInfo.vaultALpSupply, calculateWithdrawableAmount(self.accountsInfo.currentTime, self.vaultA))
        actualDepositBAmount == computeActualDepositAmount(tokenBInAmount, self.poolInfo.tokenBAmount, self.accountsInfo.poolVaultBLp, self.accountsInfo.vaultBLpSupply, calculateWithdrawableAmount(self.accountsInfo.currentTime, self.vaultB))
        poolTokenAmountOut == computeImbalanceDeposit(actualDepositAAmount, actualDepositBAmount, self.poolInfo.tokenAAmount, self.poolInfo.tokenBAmount, self.accountsInfo.poolLpSupply, self.poolState.fees)
    IN  DepositQuote("imbalance", poolTokenAmountOut,
                     getMinAmountWithSlippage(poolTokenAmountOut, slippage),
                     tokenAInAmount, tokenBInAmount)

\* getDepositQuote with the balanced regimes tested before the bootstrap one
getDepositQuote_BalancedFirst(self, tokenAInAmount, tokenBInAmount, balance, slippage) ==
    IF ~isStablePool(self) /\ tokenAInAmount # 0 /\ tokenBInAmount # 0
          /\ self.accountsInfo.poolLpSupply # 0
    THEN Thrown("Constant product only supports balanced deposit")
    ELSE IF tokenAInAmount # 0 /\ tokenBInAmount # 0 /\ balance
    THEN Thrown("Deposit balance is not possible when both token in amount is non-zero")
    ELSE IF tokenAInAmount = 0 /\ balance
    THEN balancedDepositQuote(self, TokenBMint, tokenBInAmount, slippage)
    ELSE IF tokenBInAmount = 0 /\ balance
    THEN balancedDepositQuote(self, TokenAMint, tokenAInAmount, slippage)
    ELSE IF self.accountsInfo.poolLpSupply = 0
    THEN LET poolTokenAmountOut == computeD(tokenAInAmount, tokenBInAmount)
         IN  DepositQuote("bootstrap", poolTokenAmountOut, poolTokenAmountOut,
                          tokenAInAmount, tokenBInAmount)
    ELSE imbalanceDepositQuote(self, tokenAInAmount, tokenBInAmount, slippage)

\* getDepositQuote with the slippage applied to the bootstrap quote too
getDepositQuote_BootstrapSlippage(self, tokenAInAmount, tokenBInAmount, balance, slippage) ==
    IF ~isStablePool(self) /\ tokenAInAmount # 0 /\ tokenBInAmount # 0
          /\ self.accountsInfo.poolLpSupply # 0
    THEN Thrown("Constant product only supports balanced deposit")
    ELSE IF tokenAInAmount # 0 /\ tokenBInAmount # 0 /\ balance
    THEN Thrown("Deposit balance is not possible when both token in amount is non-zero")
    ELSE IF self.accountsInfo.poolLpSupply = 0
    THEN LET poolTokenAmountOut == computeD(tokenAInAmount, tokenBInAmount)
         IN  DepositQuote("bootstrap", poolTokenAmountOut,
                          getMinAmountWithSlippage(poolTokenAmountOut, slippage),
                          tokenAInAmount, tokenBInAmount)
    ELSE IF tokenAInAmount = 0 /\ balance
    THEN balancedDepositQuote(self, TokenBMint, tokenBInAmount, slippage)
    ELSE IF tokenBInAmount = 0 /\ balance
    THEN balancedDepositQuote(self, TokenAMint, tokenAInAmount, slippage)
    ELSE imbalanceDepositQuote(self, tokenAInAmount, tokenBInAmount, slippage)

\* getDepositQuote with the bootstrap regime tested before the two checks
getDepositQuote_BootstrapFirst(self, tokenAInAmount, tokenBInAmount, balance, slippage) ==
    IF self.accountsInfo.poolLpSupply = 0
    THEN LET poolTokenAmountOut == computeD(tokenAInAmount, tokenBInAmount)
         IN  DepositQuote("bootstrap", poolTokenAmountOut, poolTokenAmountOut,
                          tokenAInAmount, tokenBInAmount)
    ELSE IF ~isStablePool(self) /\ tokenAInAmount # 0 /\ tokenBInAmount # 0
    THEN Thrown("Constant product only supports balanced deposit")
    ELSE IF tokenAInAmount # 0 /\ tokenBInAmount # 0 /\ balance
    THEN Thrown("Deposit balance is not possible when both token in amount is non-zero")
    ELSE IF tokenAInAmount = 0 /\ balance
    THEN balancedDepositQuote(self, TokenBMint, tokenBInAmount, slippage)
    ELSE IF tokenBInAmount = 0 /\ balance
    THEN balancedDepositQuote(self, TokenAMint, tokenAInAmount, slippage)
    ELSE imbalanceDepositQuote(self, tokenAInAmount, tokenBInAmount, slippage)

\* getDepositQuote whose first check leaves out the liquidity supply
getDepositQuote_NoSupplyTest(self, tokenAInAmount, tokenBInAmount, balance, slippage) ==
    IF ~isStablePool(self) /\ tokenAInAmount # 0 /\ tokenBInAmount # 0
    THEN Thrown("Constant product only supports balanced deposit")
    ELSE IF tokenAInAmount # 0 /\ tokenBInAmount # 0 /\ balance
    THEN Thrown("Deposit balance is not possible when both token in amount is non-zero")
    ELSE IF self.accountsInfo.poolLpSupply = 0
    THEN LET poolTokenAmountOut == computeD(tokenAInAmount, tokenBInAmount)
         IN  DepositQuote("bootstrap", poolTokenAmountOut, poolTokenAmountOut,
                          tokenAInAmount, tokenBInAmount)
    ELSE IF tokenAInAmount = 0 /\ balance
    THEN balancedDepositQuote(self, TokenBMint, tokenBInAmount, slippage)
    ELSE IF tokenBInAmount = 0 /\ balance
    THEN balancedDepositQuote(self, TokenAMint, tokenAInAmount, slippage)
    ELSE imbalanceDepositQuote(self, tokenAInAmount, tokenBInAmount, slippage)

\* getDepositQuote whose bootstrap quote mints the sum of the two amounts
getDepositQuote_BootstrapSum(self, tokenAInAmount, tokenBInAmount, balance, slippage) ==
    IF ~isStablePool(self) /\ tokenAInAmount # 0 /\ tokenBInAmount # 0
          /\ self.accountsInfo.poolLpSupply # 0
    THEN Thrown("Constant product only supports balanced deposit")
    ELSE IF tokenAInAmount # 0 /\ tokenBInAmount # 0 /\ balance
    THEN Thrown("Deposit balance is not possible when both token in amount is non-zero")
    ELSE IF self.accountsInfo.poolLpSupply = 0
    THEN LET poolTokenAmountOut == tokenAInAmount + tokenBInAmount
         IN  DepositQuote("bootstrap", poolTokenAmountOut, poolTokenAmountOut,
                          tokenAInAmount, tokenBInAmount)
    ELSE IF tokenAInAmount = 0 /\ balance
    THEN balancedDepositQuote(self, TokenBMint, tokenBInAmount, slippage)
    ELSE IF tokenBInAmount = 0 /\ balance
    THEN balancedDepositQuote(self, TokenAMint, tokenAInAmount, slippage)
    ELSE imbalanceDepositQuote(self, tokenAInAmount, tokenBInAmount, slippage)

\* getDepositQuote whose balanced regimes do not test the balance flag
getDepositQuote_ZeroMeansBalanced(self, tokenAInAmount, tokenBInAmount, balance, slippage) ==
    IF ~isStablePool(self) /\ tokenAInAmount # 0 /\ tokenBInAmount # 0
          /\ self.accountsInfo.poolLpSupply # 0
    THEN Thrown("Constant product only supports balanced deposit")
    ELSE IF tokenAInAmount # 0 /\ tokenBInAmount # 0 /\ balance
    THEN Thrown("Deposit balance is not possible when both token in amount is non-zero")
    ELSE IF self.accountsInfo.poolLpSupply = 0
    THEN LET poolTokenAmountOut == computeD(tokenAInAmount, tokenBInAmount)
         IN  DepositQuote("bootstrap", poolTokenAmountOut, poolTokenAmountOut,
                          tokenAInAmount, tokenBInAmount)
    ELSE IF tokenAInAmount = 0
    THEN balancedDepositQuote(self, TokenBMint, tokenBInAmount, slippage)
    ELSE IF tokenBInAmount = 0
    THEN balancedDepositQuote(self, TokenAMint, tokenAInAmount, slippage)
    ELSE imbalanceDepositQuote(self, tokenAInAmount, tokenBInAmount, slippage)

getDepositQuote(self, tokenAInAmount, tokenBInAmount, balance, slippage) ==
    IF ~isStablePool(self) /\ tokenAInAmount # 0 /\ tokenBInAmount # 0
          /\ self.accountsInfo.poolLpSupply # 0
    THEN Thrown("Constant product only supports balanced deposit")
    ELSE IF tokenAInAmount # 0 /\ tokenBInAmount # 0 /\ balance
    THEN Thrown("Deposit balance is not possible when both token in amount is non-zero")
    ELSE IF self.accountsInfo.poolLpSupply = 0
    THEN LET poolTokenAmountOut == computeD(tokenAInAmount, tokenBInAmount)
         IN  DepositQuote("bootstrap", poolTokenAmountOut, poolTokenAmountOut,
                          tokenAInAmount, tokenBInAmount)
    ELSE IF tokenAInAmount = 0 /\ balance
    THEN balancedDepositQuote(self, TokenBMint, tokenBInAmount, slippage)
    ELSE IF tokenBInAmount = 0 /\ balance
    THEN balancedDepositQuote(self, TokenAMint, tokenAInAmount, slippage)
    ELSE imbalanceDepositQuote(self, tokenAInAmount, tokenBInAmount, slippage)

WithdrawQuote(regime, poolTokenAmountIn, tokenAOutAmount, tokenBOutAmount, minTokenAOutAmount, minTokenBOutAmount) ==
    [ status |-> "ok", err |-> "none", regime |-> regime,
      poolTokenAmountIn |-> poolTokenAmountIn,
      tokenAOutAmount |-> tokenAOutAmount,
      tokenBOutAmount |-> tokenBOutAmount,
      minTokenAOutAmount |-> minTokenAOutAmount,
      minTokenBOutAmount |-> minTokenBOutAmount ]

\* getWithdrawQuote with the balanced conversions rounded to the nearest
getWithdrawQuote_RoundUp(self, withdrawTokenAmount, slippage, tokenMint) ==
    LET vaultAWithdrawableAmount == calculateWithdrawableAmount(self.accountsInfo.currentTime, self.vaultA)
        vaultBWithdrawableAmount == calculateWithdrawableAmount(self.accountsInfo.currentTime, self.vaultB)
    IN  IF tokenMint = NoMint
        THEN LET vaultALpBurn == getShareByAmount(withdrawTokenAmount, self.accountsInfo.poolLpSupply, self.accountsInfo.poolVaultALp, TRUE)
                 vaultBLpBurn == getShareByAmount(withdrawTokenAmount, self.accountsInfo.poolLpSupply, self.accountsInfo.poolVaultBLp, TRUE)
                 tokenAOutAmount == getAmountByShare(vaultALpBurn, vaultAWithdrawableAmount, self.accountsInfo.vaultALpSupply, TRUE)
                 tokenBOutAmount == getAmountByShare(vaultBLpBurn, vaultBWithdrawableAmount, self.accountsInfo.vaultBLpSupply, TRUE)
             IN  WithdrawQuote("balanced", withdrawTokenAmount, tokenAOutAmount, tokenBOutAmount,
                               getMinAmountWithSlippage(tokenAOutAmount, slippage),
                               getMinAmountWithSlippage(tokenBOutAmount, slippage))
        ELSE LET isWithdrawingTokenA == tokenMint = TokenAMint
                 isWithdrawingTokenB == tokenMint = TokenBMint
                 tradeDirection == IF tokenMint = TokenAMint THEN BToA ELSE AToB
                 outAmount == computeWithdrawOne(withdrawTokenAmount, self.accountsInfo.poolLpSupply, self.poolInfo.tokenAAmount, self.poolInfo.tokenBAmount, self.poolState.fees, tradeDirection)
                 vaultLpSupply == IF tradeDirection = AToB THEN self.accountsInfo.vaultBLpSupply ELSE self.accountsInfo.vaultALpSupply
                 vaultTotalAmount == IF tradeDirection = AToB THEN vaultBWithdrawableAmount ELSE vaultAWithdrawableAmount
             IN  IF ~(isWithdrawingTokenA \/ isWithdrawingTokenB)
                 THEN Thrown("INVALID_MINT")
                 ELSE IF vaultTotalAmount = 0 \/ vaultLpSupply = 0
                 THEN Thrown("Assertion failed")
                 ELSE LET vaultLpToBurn == div(outAmount * vaultLpSupply, vaultTotalAmount)
                          realOutAmount == div(vaultLpToBurn * vaultTotalAmount, vaultLpSupply)
                          minRealOutAmount == getMinAmountWithSlippage(realOutAmount, slippage)
                      IN  WithdrawQuote("single", withdrawTokenAmount,
                                        IF isWithdrawingTokenA THEN realOutAmount ELSE 0,
                                        IF isWithdrawingTokenB THEN realOutAmount ELSE 0,
                                        IF isWithdrawingTokenA THEN minRealOutAmount ELSE 0,
                                        IF isWithdrawingTokenB THEN minRealOutAmount ELSE 0)

\* getWithdrawQuote quoting the curve's amount itself on the single-sided path
getWithdrawQuote_Nominal(self, withdrawTokenAmount, slippage, tokenMint) ==
    LET vaultAWithdrawableAmount == calculateWithdrawableAmount(self.accountsInfo.currentTime, self.vaultA)
        vaultBWithdrawableAmount == calculateWithdrawableAmount(self.accountsInfo.currentTime, self.vaultB)
    IN  IF tokenMint = NoMint
        THEN LET vaultALpBurn == getShareByAmount(withdrawTokenAmount, self.accountsInfo.poolLpSupply, self.accountsInfo.poolVaultALp, FALSE)
                 vaultBLpBurn == getShareByAmount(withdrawTokenAmount, self.accountsInfo.poolLpSupply, self.accountsInfo.poolVaultBLp, FALSE)
                 tokenAOutAmount == getAmountByShare(vaultALpBurn, vaultAWithdrawableAmount, self.accountsInfo.vaultALpSupply, FALSE)
                 tokenBOutAmount == getAmountByShare(vaultBLpBurn, vaultBWithdrawableAmount, self.accountsInfo.vaultBLpSupply, FALSE)
             IN  WithdrawQuote("balanced", withdrawTokenAmount, tokenAOutAmount, tokenBOutAmount,
                               getMinAmountWithSlippage(tokenAOutAmount, slippage),
                               getMinAmountWithSlippage(tokenBOutAmount, slippage))
        ELSE LET isWithdrawingTokenA == tokenMint = TokenAMint
                 isWithdrawingTokenB == tokenMint = TokenBMint
                 tradeDirection == IF tokenMint = TokenAMint THEN BToA ELSE AToB
                 outAmount == computeWithdrawOne(withdrawTokenAmount, self.accountsInfo.poolLpSupply, self.poolInfo.tokenAAmount, self.poolInfo.tokenBAmount, self.poolState.fees, tradeDirection)
                 vaultLpSupply == IF tradeDirection = AToB THEN self.accountsInfo.vaultBLpSupply ELSE self.accountsInfo.vaultALpSupply
                 vaultTotalAmount == IF tradeDirection = AToB THEN vaultBWithdrawableAmount ELSE vaultAWithdrawableAmount
             IN  IF ~(isWithdrawingTokenA \/ isWithdrawingTokenB)
                 THEN Thrown("INVALID_MINT")
                 ELSE IF vaultTotalAmount = 0 \/ vaultLpSupply = 0
                 THEN Thrown("Assertion failed")
                 ELSE LET vaultLpToBurn == div(outAmount * vaultLpSupply, vaultTotalAmount)
                          realOutAmount == outAmount
                          minRealOutAmount == getMinAmountWithSlippage(realOutAmount, slippage)
                      IN  WithdrawQuote("single", withdrawTokenAmount,
                                        IF isWithdrawingTokenA THEN realOutAmount ELSE 0,
                                        IF isWithdrawingTokenB THEN realOutAmount ELSE 0,
                                        IF isWithdrawingTokenA THEN minRealOutAmount ELSE 0,
                                        IF isWithdrawingTokenB THEN minRealOutAmount ELSE 0)

\* tokenA.address and tokenB.address are the pool's mints: create checks
\* them against poolState.tokenAMint and poolState.tokenBMint.
getWithdrawQuote(self, withdrawTokenAmount, slippage, tokenMint) ==
    LET vaultAWithdrawableAmount == calculateWithdrawableAmount(self.accountsInfo.currentTime, self.vaultA)
        vaultBWithdrawableAmount == calculateWithdrawableAmount(self.accountsInfo.currentTime, self.vaultB)
    IN  IF tokenMint = NoMint
        THEN LET vaultALpBurn == getShareByAmount(withdrawTokenAmount, self.accountsInfo.poolLpSupply, self.accountsInfo.poolVaultALp, FALSE)
                 vaultBLpBurn == getShareByAmount(withdrawTokenAmount, self.accountsInfo.poolLpSupply, self.accountsInfo.poolVaultBLp, FALSE)
                 tokenAOutAmount == getAmountByShare(vaultALpBurn, vaultAWithdrawableAmount, self.accountsInfo.vaultALpSupply, FALSE)
                 tokenBOutAmount == getAmountByShare(vaultBLpBurn, vaultBWithdrawableAmount, self.accountsInfo.vaultBLpSupply, FALSE)
             IN  WithdrawQuote("balanced", withdrawTokenAmount, tokenAOutAmount, tokenBOutAmount,
                               getMinAmountWithSlippage(tokenAOutAmount, slippage),
                               getMinAmountWithSlippage(tokenBOutAmount, slippage))
        ELSE LET isWithdrawingTokenA == tokenMint = TokenAMint
                 isWithdrawingTokenB == tokenMint = TokenBMint
                 tradeDirection == IF tokenMint = TokenAMint THEN BToA ELSE AToB
                 outAmount == computeWithdrawOne(withdrawTokenAmount, self.accountsInfo.poolLpSupply, self.poolInfo.tokenAAmount, self.poolInfo.tokenBAmount, self.poolState.fees, tradeDirection)
                 vaultLpSupply == IF tradeDirection = AToB THEN self.accountsInfo.vaultBLpSupply ELSE self.accountsInfo.vaultALpSupply
                 vaultTotalAmount == IF tradeDirection = AToB THEN vaultBWithdrawableAmount ELSE vaultAWithdrawableAmount
             IN  IF ~(isWithdrawingTokenA \/ isWithdrawingTokenB)
                 THEN Thrown("INVALID_MINT")
                 ELSE IF vaultTotalAmount = 0 \/ vaultLpSupply = 0
                 THEN Thrown("Assertion failed")
                 ELSE LET vaultLpToBurn == div(outAmount * vaultLpSupply, vaultTotalAmount)
                          realOutAmount == div(vaultLpToBurn * vaultTotalAmount, vaultLpSupply)
                          minRealOutAmount == getMinAmountWithSlippage(realOutAmount, slippage)
                      IN  WithdrawQuote("single", withdrawTokenAmount,
                                        IF isWithdrawingTokenA THEN realOutAmount ELSE 0,
                                        IF isWithdrawingTokenB THEN realOutAmount ELSE 0,
                                        IF isWithdrawingTokenA THEN minRealOutAmount ELSE 0,
                                        IF isWithdrawingTokenB THEN minRealOutAmount ELSE 0)

getMaxSwapOutAmount(self, tokenMint) ==
    IF tokenMint \notin {TokenAMint, TokenBMint}
    THEN Thrown("INVALID_MINT")
    ELSE [ status |-> "ok", err |-> "none", regime |-> "maxOut",
           amount |-> calculateMaxSwapOutAmount(tokenMint, self.poolInfo.tokenAAmount, self.poolInfo.tokenBAmount, self.accountsInfo.vaultAReserve, self.accountsInfo.vaultBReserve) ]

calculateAdminTradingFee(self, amount) ==
    div(amount * self.poolState.fees.ownerTradeFeeNumerator, self.poolState.fees.ownerTradeFeeDenominator)

calculateTradingFee(self, amount) ==
    div(amount * self.poolState.fees.tradeFeeNumerator, self.poolState.fees.tradeFeeDenominator)

\* getMaxSwapInAmount with the trade fee taken on what the admin fee left
getMaxSwapInAmount_FeeOnNet(self, tokenMint) ==
    IF tokenMint \notin {TokenAMint, TokenBMint}
    THEN Thrown("INVALID_MINT")
    ELSE LET aToB == tokenMint = TokenAMint
             outTokenMint == IF aToB THEN TokenBMint ELSE TokenAMint
             swapSourceAmount == IF aToB THEN self.poolInfo.tokenAAmount ELSE self.poolInfo.tokenBAmount
             swapDestAmount == IF aToB THEN self.poolInfo.tokenBAmount ELSE self.poolInfo.tokenAAmount
             tradeDirection == IF aToB THEN AToB ELSE BToA
             maxOut == getMaxSwapOutAmount(self, outTokenMint).amount
             maxOutAmount == IF maxOut = swapDestAmount THEN maxOut - 1 ELSE maxOut
             maxInAmount == computeInAmount(maxOutAmount, swapSourceAmount, swapDestAmount, tradeDirection)
             adminFee == calculateAdminTradingFee(self, maxInAmount)
             tradeFee == calculateTradingFee(self, maxInAmount - adminFee)
         IN  [ status |-> "ok", err |-> "none", regime |-> "maxIn",
               maxOutAmount |-> maxOutAmount,
               amount |-> (maxInAmount - adminFee) - tradeFee ]

\* getMaxSwapInAmount without its mint test: a mint that is not token A is
\* taken for token B
getMaxSwapInAmount_NoMintTest(self, tokenMint) ==
    IF FALSE
    THEN Thrown("INVALID_MINT")
    ELSE LET aToB == tokenMint = TokenAMint
             outTokenMint == IF aToB THEN TokenBMint ELSE TokenAMint
             swapSourceAmount == IF aToB THEN self.poolInfo.tokenAAmount ELSE self.poolInfo.tokenBAmount
             swapDestAmount == IF aToB THEN self.poolInfo.tokenBAmount ELSE self.poolInfo.tokenAAmount
             tradeDirection == IF aToB THEN AToB ELSE BToA
             maxOut == getMaxSwapOutAmount(self, outTokenMint).amount
             maxOutAmount == IF maxOut = swapDestAmount THEN maxOut - 1 ELSE maxOut
             maxInAmount == computeInAmount(maxOutAmount, swapSourceAmount, swapDestAmount, tradeDirection)
             adminFee == calculateAdminTradingFee(self, maxInAmount)
             tradeFee == calculateTradingFee(self, maxInAmount)
         IN  [ status |-> "ok", err |-> "none", regime |-> "maxIn",
               maxOutAmount |-> maxOutAmount,
               amount |-> (maxInAmount - adminFee) - tradeFee ]

getMaxSwapInAmount(self, tokenMint) ==
    IF tokenMint \notin {TokenAMint, TokenBMint}
    THEN Thrown("INVALID_MINT")
    ELSE LET aToB == tokenMint = TokenAMint
             outTokenMint == IF aToB THEN TokenBMint ELSE TokenAMint
             swapSourceAmount == IF aToB THEN self.poolInfo.tokenAAmount ELSE self.poolInfo.tokenBAmount
             swapDestAmount == IF aToB THEN self.poolInfo.tokenBAmount ELSE self.poolInfo.tokenAAmount
             tradeDirection == IF aToB THEN AToB ELSE BToA
             maxOut == getMaxSwapOutAmount(self, outTokenMint).amount
             maxOutAmount == IF maxOut = swapDestAmount THEN maxOut - 1 ELSE maxOut
             maxInAmount == computeInAmount(maxOutAmount, swapSourceAmount, swapDestAmount, tradeDirection)
             adminFee == calculateAdminTradingFee(self, maxInAmount)
             tradeFee == calculateTradingFee(self, maxInAmount)
         IN  [ status |-> "ok", err |-> "none", regime |-> "maxIn",
               maxOutAmount |-> maxOutAmount,
               amount |-> (maxInAmount - adminFee) - tradeFee ]

\* getSwapQuote with the minimum taken from the amount swapped in
getSwapQuote_MinOfInput(self, inTokenMint, inAmountLamport, slippage) ==
    LET q == calculateSwapQuote(inTokenMint, inAmountLamport,
                 [ currentTime |-> self.accountsInfo.currentTime,
                   poolState |-> self.poolState,
                   depegAccounts |-> self.depegAccounts,
                   poolVaultALp |-> self.accountsInfo.poolVaultALp,
                   poolVaultBLp |-> self.accountsInfo.poolVaultBLp,
                   vaultA |-> self.vaultA,
                   vaultB |-> self.vaultB,
                   vaultALpSupply |-> self.accountsInfo.vaultALpSupply,
                   vaultBLpSupply |-> self.accountsInfo.vaultBLpSupply,
                   vaultAReserve |-> self.accountsInfo.vaultAReserve,
                   vaultBReserve |-> self.accountsInfo.vaultBReserve ])
    IN  IF q.status = "error" THEN Thrown(q.err)
        ELSE [ status |-> "ok", err |-> "none", regime |-> "swap",
               swapInAmount |-> inAmountLamport,
               swapOutAmount |-> q.amountOut,
               minSwapOutAmount |-> getMinAmountWithSlippage(inAmountLamport, slippage),
               fee |-> q.fee ]

getSwapQuote(self, inTokenMint, inAmountLamport, slippage) ==
    LET q == calculateSwapQuote(inTokenMint, inAmountLamport,
                 [ currentTime |-> self.accountsInfo.currentTime,
                   poolState |-> self.poolState,
                   depegAccounts |-> self.depegAccounts,
                   poolVaultALp |-> self.accountsInfo.poolVaultALp,
                   poolVaultBLp |-> self.accountsInfo.poolVaultBLp,
                   vaultA |-> self.vaultA,
                   vaultB |-> self.vaultB,
                   vaultALpSupply |-> self.accountsInfo.vaultALpSupply,
                   vaultBLpSupply |-> self.accountsInfo.vaultBLpSupply,
                   vaultAReserve |-> self.accountsInfo.vaultAReserve,
                   vaultBReserve |-> self.accountsInfo.vaultBReserve ])
    IN  IF q.status = "error" THEN Thrown(q.err)
        ELSE [ status |-> "ok", err |-> "none", regime |-> "swap",
               swapInAmount |-> inAmountLamport,
               swapOutAmount |-> q.amountOut,
               minSwapOutAmount |-> getMinAmountWithSlippage(q.amountOut, slippage),
               fee |-> q.fee ]

\* The instruction withdraw builds: the program method, the liquidity
\* burnt, the minimum output arguments passed to it (those the method does
\* not take are 0) and the user token account a single-side removal pays.
withdraw(self, lpTokenAmount, tokenAOutAmount, tokenBOutAmount) ==
    IF isStablePool(self) /\ (tokenAOutAmount = 0 \/ tokenBOutAmount = 0)
    THEN [ status |-> "ok", err |-> "none", regime |-> "instruction",
           method |-> "removeLiquiditySingleSide",
           poolTokenAmount |-> lpTokenAmount,
           minimumOutAmount |-> 0,
           minimumAOutAmount |-> 0,
           minimumBOutAmount |-> 0,
           userDestinationToken |-> IF tokenBOutAmount = 0 THEN TokenAMint ELSE TokenBMint ]
    ELSE [ status |-> "ok", err |-> "none", regime |-> "instruction",
           method |-> "removeBalanceLiquidity",
           poolTokenAmount |-> lpTokenAmount,
           minimumOutAmount |-> 0,
           minimumAOutAmount |-> tokenAOutAmount,
           minimumBOutAmount |-> tokenBOutAmount,
           userDestinationToken |-> "none" ]

\* The depegToken getter: token A, token B or null.
depegToken(self) ==
    IF ~isStablePool(self)
    THEN [ status |-> "ok", err |-> "none", regime |-> "depegToken", token |-> "null" ]
    ELSE LET tokenMultiplier == self.poolState.tokenMultiplier
             tokenABalance == self.poolInfo.tokenAAmount * tokenMultiplier.tokenAMultiplier
             tokenBBalance == self.poolInfo.tokenBAmount * tokenMultiplier.tokenBMultiplier
             totalTokenBalance == tokenABalance + tokenBBalance
         IN  IF totalTokenBalance = 0
             THEN [ status |-> "ok", err |-> "none", regime |-> "depegToken", token |-> "null" ]
             ELSE LET isTokenADepeg == div(self.poolInfo.tokenAAmount * 2, totalTokenBalance) * 100 > 95
                      isTokenBDepeg == div(self.poolInfo.tokenBAmount * 2, totalTokenBalance) * 100 > 95
                  IN  [ status |-> "ok", err |-> "none", regime |-> "depegToken",
                        token |-> IF isTokenADepeg THEN TokenAMint
                                  ELSE IF isTokenBDepeg THEN TokenBMint
                                  ELSE "null" ]

(***************************************************************************)
(* Locked liquidity.  A lock escrow account as fetchNullable returns it:   *)
(* found is FALSE when the owner has none.                                 *)
(***************************************************************************)
LockEscrowAccount(found, totalLockedAmount, lpPerToken, unclaimedFeePending) ==
    [ found |-> found, totalLockedAmount |-> totalLockedAmount,
      lpPerToken |-> lpPerToken, unclaimedFeePending |-> unclaimedFeePending ]

NoLockEscrow == LockEscrowAccount(FALSE, 0, 0, 0)

\* the escrow accounts an owner may have: nothing or two tokens locked, at
\* a stored price of 0 or 1, with nothing or one token pending
LockEscrows ==
    { LockEscrowAccount(TRUE, t, p, u) : t \in {0, 2}, p \in {0, 1}, u \in {0, 1} }

\* unclaimedFee = totalLockedAmount * (currentLpPerToken - storedLpPerToken)
\*                  + unclaimedFeePending
calculateUnclaimedLockEscrowFee(totalLockedAmount, lpPerToken, unclaimedFeePending, currentVirtualPrice) ==
    totalLockedAmount * (currentVirtualPrice - lpPerToken) + unclaimedFeePending

\* getUserLockEscrow with the locked amount itself put through the quote
getUserLockEscrow_QuotesLocked(self, lockEscrowAccount) ==
    IF ~lockEscrowAccount.found
    THEN [ status |-> "ok", err |-> "none", regime |-> "null",
           amount |-> 0, lp |-> 0, tokenA |-> 0, tokenB |-> 0 ]
    ELSE LET unClaimedFee == calculateUnclaimedLockEscrowFee(lockEscrowAccount.totalLockedAmount, lockEscrowAccount.lpPerToken, lockEscrowAccount.unclaimedFeePending, self.poolInfo.virtualPriceRaw)
             q == getWithdrawQuote(self, lockEscrowAccount.totalLockedAmount, 0, NoMint)
         IN  [ status |-> "ok", err |-> "none", regime |-> "escrow",
               amount |-> lockEscrowAccount.totalLockedAmount,
               lp |-> unClaimedFee,
               tokenA |-> q.tokenAOutAmount,
               tokenB |-> q.tokenBOutAmount ]

\* The result from the fetched account on: null, or the escrow's amount and
\* its unclaimed fee in liquidity tokens and in the two tokens.
getUserLockEscrow(self, lockEscrowAccount) ==
    IF ~lockEscrowAccount.found
    THEN [ status |-> "ok", err |-> "none", regime |-> "null",
           amount |-> 0, lp |-> 0, tokenA |-> 0, tokenB |-> 0 ]
    ELSE LET unClaimedFee == calculateUnclaimedLockEscrowFee(lockEscrowAccount.totalLockedAmount, lockEscrowAccount.lpPerToken, lockEscrowAccount.unclaimedFeePending, self.poolInfo.virtualPriceRaw)
             q == getWithdrawQuote(self, unClaimedFee, 0, NoMint)
         IN  [ status |-> "ok", err |-> "none", regime |-> "escrow",
               amount |-> lockEscrowAccount.totalLockedAmount,
               lp |-> unClaimedFee,
               tokenA |-> q.tokenAOutAmount,
               tokenB |-> q.tokenBOutAmount ]

(***************************************************************************)
(* The remote ledger, as the fetches of create and updateState read it.    *)
(***************************************************************************)
\* the token multiplier of a stable curve whose tokens have equal decimals
UnitMultiplier == [ tokenAMultiplier |-> 1, tokenBMultiplier |-> 1 ]

\* token multipliers of a stable curve: equal decimals, and one decimal
\* more on either side
TokenMultipliers ==
    { UnitMultiplier,
      [ tokenAMultiplier |-> 10, tokenBMultiplier |-> 1 ],
      [ tokenAMultiplier |-> 1, tokenBMultiplier |-> 10 ] }

Ledger(curveType, fees, lpSupply, a, b, clock) ==
    [ gen |-> 0, curveType |-> curveType, tokenMultiplier |-> UnitMultiplier,
      fees |-> fees, lpSupply |-> lpSupply,
      a |-> a, b |-> b, clock |-> clock ]

\* getPoolState: the pool account and the supply of its liquidity token
\* (tokenMultiplier stands for curveType.stable.tokenMultiplier)
getPoolState(ledger) ==
    [ curveType |-> ledger.curveType, tokenMultiplier |-> ledger.tokenMultiplier,
      fees |-> ledger.fees, lpSupply |-> ledger.lpSupply ]

\* the vault state VaultImpl.create and refreshVaultState fetch
vaultStateOf(side) ==
    [ totalAmount |-> side.totalAmount, lockedProfit |-> side.lockedProfit ]

\* getAccountsBuffer and deserializeAccountsBuffer: one fetch of the eight
\* accounts, decoded
getAccountsInfo(ledger) ==
    [ currentTime |-> ledger.clock,
      poolVaultALp |-> ledger.a.poolVaultLp,
      poolVaultBLp |-> ledger.b.poolVaultLp,
      vaultALpSupply |-> ledger.a.lpSupply,
      vaultBLpSupply |-> ledger.b.lpSupply,
      vaultAReserve |-> ledger.a.reserve,
      vaultBReserve |-> ledger.b.reserve,
      poolLpSupply |-> ledger.lpSupply ]

\* getDepegAccounts: the pools modelled have no depeg account
getDepegAccounts(ledger) == {}

\* calculatePoolInfo as create and updateState call it
poolInfoOf(acc, curve, vaultAState, vaultBState) ==
    calculatePoolInfo(acc.currentTime, acc.poolVaultALp, acc.poolVaultBLp, acc.vaultALpSupply, acc.vaultBLpSupply, acc.poolLpSupply, curve, vaultAState, vaultBState)

(***************************************************************************)
(* State.                                                                  *)
(*   ledger        the remote ledger                                       *)
(*   ctor          the position of AmmImpl.create ("done": constructed)    *)
(*   poolState, vaultA, vaultB, accountsInfo, poolInfo, swapCurve,         *)
(*   depegAccounts the fields of the AmmImpl object (while create runs,    *)
(*                 its locals of the same names)                           *)
(*   origin        for each field, the call that wrote it: 0 for create,   *)
(*                 n for the n-th updateState call                         *)
(*   task          the updateState calls: position, pending promises of    *)
(*                 the Promise.all, locals, outcome, and whether the call  *)
(*                 has replaced the value of poolState, accountsInfo,      *)
(*                 poolInfo or swapCurve by a different one                *)
(*   calls         the number of updateState calls made                    *)
(*   quote         the quote call returning to its caller (none between    *)
(*                 calls): operation, arguments, result, whether an        *)
(*                 updateState call was suspended when it ran, and whether *)
(*                 the fields it read were written by different calls      *)
(***************************************************************************)
VARIABLES ledger, ctor, poolState, vaultA, vaultB, accountsInfo, poolInfo,
          swapCurve, depegAccounts, origin, task, calls, quote

vars == << ledger, ctor, poolState, vaultA, vaultB, accountsInfo, poolInfo,
           swapCurve, depegAccounts, origin, task, calls, quote >>

object == << poolState, vaultA, vaultB, accountsInfo, poolInfo, swapCurve, depegAccounts >>

\* the AmmImpl object the methods run on
this ==
    [ poolState |-> poolState, vaultA |-> vaultA, vaultB |-> vaultB,
      accountsInfo |-> accountsInfo, poolInfo |-> poolInfo,
      swapCurve |-> swapCurve, depegAccounts |-> depegAccounts ]

Calls == 1..MaxCalls

NoPoolState == [ curveType |-> "constantProduct", tokenMultiplier |-> UnitMultiplier, fees |-> CHOOSE f \in FeeSchedules : f.tradeFeeNumerator = 0, lpSupply |-> 0 ]
NoVaultState == [ totalAmount |-> 0, lockedProfit |-> 0 ]
NoAccountsInfo == getAccountsInfo(Ledger("constantProduct", NoPoolState.fees, 0, Side(0, 0, 0, 0, 0), Side(0, 0, 0, 0, 0), 0))
NoPoolInfo == [ tokenAAmount |-> 0, tokenBAmount |-> 0, virtualPriceRaw |-> 0 ]
NoQuote == [ op |-> "none", args |-> << >>, suspended |-> FALSE, torn |-> FALSE, result |-> Thrown("none") ]

IdleTask ==
    [ pc |-> "idle", pending |-> {}, poolState |-> NoPoolState,
      acc |-> NoAccountsInfo, outcome |-> "none", changed |-> FALSE ]

CreatedOrigin ==
    [ poolState |-> 0, vaultA |-> 0, vaultB |-> 0, accountsInfo |-> 0,
      poolInfo |-> 0, swapCurve |-> 0, depegAccounts |-> 0 ]

\* the ledgers a run starts from
Ledgers ==
    { Ledger(c, f, s, a, b, t) :
        c \in CurveTypes, f \in FeeSchedules, s \in PoolLpSupplies,
        a \in Sides, b \in Sides, t \in Clocks }

\* the ledgers the runs of create and updateState start from
StartLedgers ==
    { l \in Ledgers :
        /\ l.fees.tradeFeeNumerator = 0
        /\ l.clock = 0
        /\ l.lpSupply = 0
        /\ l.a = Side(0, 2, 3, 0, 3)
        /\ l.b = Side(0, 0, 0, 0, 0) }

(***************************************************************************)
(* The ledger changes while the client runs.                               *)
(***************************************************************************)
grow(side) ==
    [ side EXCEPT !.poolVaultLp = @ + 1, !.lpSupply = @ + 1,
                  !.totalAmount = @ + 1, !.reserve = @ + 1 ]

\* somebody deposits into the pool: one liquidity token is minted against
\* one vault share on each side
LedgerDeposit ==
    /\ ledger.gen < MaxGen
    /\ ledger' = [ ledger EXCEPT !.gen = @ + 1, !.lpSupply = @ + 1,
                                 !.a = grow(@), !.b = grow(@) ]
    /\ UNCHANGED << ctor, object, origin, task, calls, quote >>

(***************************************************************************)
(* AmmImpl.create: four awaits, then the constructor.                      *)
(***************************************************************************)
CreateGetPoolState ==
    /\ ctor.pc = "getPoolState"
    /\ poolState' = getPoolState(ledger)
    /\ ctor' = [ pc |-> "vaults", pending |-> {"vaultA", "vaultB"} ]
    /\ UNCHANGED << ledger, vaultA, vaultB, accountsInfo, poolInfo, swapCurve,
                    depegAccounts, origin, task, calls, quote >>

\* Promise.all of the two VaultImpl.create calls
CreateVault(v) ==
    /\ ctor.pc = "vaults"
    /\ v \in ctor.pending
    /\ IF v = "vaultA"
       THEN vaultA' = vaultStateOf(ledger.a) /\ UNCHANGED vaultB
       ELSE vaultB' = vaultStateOf(ledger.b) /\ UNCHANGED vaultA
    /\ ctor' = IF ctor.pending = {v}
               THEN [ pc |-> "getAccountsBuffer", pending |-> {} ]
               ELSE [ ctor EXCEPT !.pending = @ \ {v} ]
    /\ UNCHANGED << ledger, poolState, accountsInfo, poolInfo, swapCurve,
                    depegAccounts, origin, task, calls, quote >>

CreateGetAccountsBuffer ==
    /\ ctor.pc = "getAccountsBuffer"
    /\ accountsInfo' = getAccountsInfo(ledger)
    /\ ctor' = [ ctor EXCEPT !.pc = "getDepegAccounts" ]
    /\ UNCHANGED << ledger, poolState, vaultA, vaultB, poolInfo, swapCurve,
                    depegAccounts, origin, task, calls, quote >>

CreateConstruct ==
    /\ ctor.pc = "getDepegAccounts"
    /\ depegAccounts' = getDepegAccounts(ledger)
    /\ swapCurve' = ConstantProductSwap
    /\ poolInfo' = poolInfoOf(accountsInfo, swapCurve', vaultA, vaultB)
    /\ ctor' = [ ctor EXCEPT !.pc = "done" ]
    /\ UNCHANGED << ledger, poolState, vaultA, vaultB, accountsInfo, origin,
                    task, calls, quote >>

created == ctor.pc = "done"

(***************************************************************************)
(* AmmImpl.updateState.  Each await is a point where the call is           *)
(* suspended; what follows an await up to the next one runs in one step.   *)
(***************************************************************************)
\* line 513: the call starts its three fetches
UpdateStart(c) ==
    /\ created
    /\ c = calls + 1
    /\ c \in Calls
    /\ calls' = c
    /\ task' = [ task EXCEPT ![c] =
                   [ pc |-> "fetch", pending |-> {"pool", "vaultA", "vaultB"},
                     poolState |-> NoPoolState, acc |-> NoAccountsInfo,
                     outcome |-> "running", changed |-> FALSE ] ]
    /\ UNCHANGED << ledger, ctor, object, origin, quote >>

\* lines 514-519: one promise of the Promise.all resolves.  A vault refresh
\* writes the vault's state as it resolves; when the last of the three has
\* resolved the call resumes and assigns this.poolState.  A vault refresh
\* left pending by a rejected Promise.all still resolves.
FetchResolved(c, p) ==
    /\ p \in task[c].pending
    /\ LET fetched == IF p = "pool" THEN getPoolState(ledger) ELSE task[c].poolState
           resumes == task[c].pc = "fetch" /\ task[c].pending = {p}
       IN  /\ task' = [ task EXCEPT ![c].pending = @ \ {p},
                                    ![c].poolState = fetched,
                                    ![c].pc = IF resumes THEN "accounts" ELSE @,
                                    ![c].changed = @ \/ (resumes /\ fetched # poolState) ]
           /\ vaultA' = IF p = "vaultA" THEN vaultStateOf(ledger.a) ELSE vaultA
           /\ vaultB' = IF p = "vaultB" THEN vaultStateOf(ledger.b) ELSE vaultB
           /\ poolState' = IF resumes THEN fetched ELSE poolState
           /\ origin' = [ origin EXCEPT
                            !.vaultA = IF p = "vaultA" THEN c ELSE @,
                            !.vaultB = IF p = "vaultB" THEN c ELSE @,
                            !.poolState = IF resumes THEN c ELSE @ ]
    /\ UNCHANGED << ledger, ctor, accountsInfo, poolInfo, swapCurve,
                    depegAccounts, calls, quote >>

\* lines 514-518: one promise of the Promise.all rejects, and the call fails
FetchRejected(c, p) ==
    /\ task[c].pc = "fetch"
    /\ p \in task[c].pending
    /\ task' = [ task EXCEPT ![c].pc = "idle", ![c].outcome = "failed",
                             ![c].pending = @ \ {p, "pool"} ]
    /\ UNCHANGED << ledger, ctor, object, origin, calls, quote >>

\* lines 521-563: the accounts are fetched, decoded and assigned
AccountsResolved(c) ==
    /\ task[c].pc = "accounts"
    /\ LET acc == getAccountsInfo(ledger)
       IN  /\ accountsInfo' = acc
           /\ task' = [ task EXCEPT ![c].pc = "depeg", ![c].acc = acc,
                                    ![c].changed = @ \/ acc # accountsInfo ]
    /\ origin' = [ origin EXCEPT !.accountsInfo = c ]
    /\ UNCHANGED << ledger, ctor, poolState, vaultA, vaultB, poolInfo,
                    swapCurve, depegAccounts, calls, quote >>

\* lines 521-552: the fetch rejects, an account is missing or the
\* 'Account Info not found' check fails
AccountsRejected(c) ==
    /\ task[c].pc = "accounts"
    /\ task' = [ task EXCEPT ![c].pc = "idle", ![c].outcome = "failed" ]
    /\ UNCHANGED << ledger, ctor, object, origin, calls, quote >>

\* lines 565-579: the depeg accounts, the curve and the pool info
DepegResolved(c) ==
    /\ task[c].pc = "depeg"
    /\ depegAccounts' = getDepegAccounts(ledger)
    /\ swapCurve' = ConstantProductSwap
    /\ poolInfo' = poolInfoOf(task[c].acc, swapCurve', vaultA, vaultB)
    /\ origin' = [ origin EXCEPT !.depegAccounts = c, !.swapCurve = c, !.poolInfo = c ]
    /\ task' = [ task EXCEPT ![c].pc = "idle", ![c].outcome = "done",
                             ![c].changed = @ \/ poolInfo' # poolInfo \/ swapCurve' # swapCurve ]
    /\ UNCHANGED << ledger, ctor, poolState, vaultA, vaultB, accountsInfo,
                    calls, quote >>

\* line 565: getDepegAccounts rejects
DepegRejected(c) ==
    /\ task[c].pc = "depeg"
    /\ task' = [ task EXCEPT ![c].pc = "idle", ![c].outcome = "failed" ]
    /\ UNCHANGED << ledger, ctor, object, origin, calls, quote >>

(***************************************************************************)
(* The quote operations, called on the constructed object at any time.     *)
(***************************************************************************)
\* the fields each operation reads
Reads(op) ==
    CASE op = "getSwapQuote" -> {"poolState", "accountsInfo", "vaultA", "vaultB", "depegAccounts"}
      [] op = "getMaxSwapOutAmount" -> {"poolState", "accountsInfo", "poolInfo"}
      [] op = "getMaxSwapInAmount" -> {"poolState", "accountsInfo", "poolInfo", "swapCurve"}
      [] op = "getDepositQuote" -> {"poolState", "accountsInfo", "poolInfo", "swapCurve", "vaultA", "vaultB"}
      [] op = "getWithdrawQuote" -> {"poolState", "accountsInfo", "poolInfo", "swapCurve", "vaultA", "vaultB"}
      [] op = "roundTrip" -> {"accountsInfo", "vaultA", "vaultB"}
      [] op = "getUserLockEscrow" -> {"accountsInfo", "poolInfo", "vaultA", "vaultB"}
      [] op = "depegToken" -> {"poolState", "poolInfo"}
      [] op = "withdraw" -> {"poolState", "vaultA", "vaultB", "swapCurve"}

Called(op, args, result) ==
    [ op |-> op, args |-> args, result |-> result,
      suspended |-> \E c \in Calls : task[c].outcome = "running",
      torn |-> Cardinality({ origin[f] : f \in Reads(op) }) > 1 ]

GetSwapQuote(mints, amounts, slippages) ==
    /\ created
    /\ quote.op = "none"
    /\ \E m \in mints, x \in amounts, s \in slippages :
          quote' = Called("getSwapQuote", << m, x, s >>, getSwapQuote(this, m, x, s))
    /\ UNCHANGED << ledger, ctor, object, origin, task, calls >>

GetMaxSwapInAmount(mints) ==
    /\ created
    /\ quote.op = "none"
    /\ \E m \in mints :
          quote' = Called("getMaxSwapInAmount", << m >>, getMaxSwapInAmount(this, m))
    /\ UNCHANGED << ledger, ctor, object, origin, task, calls >>

GetMaxSwapOutAmount(mints) ==
    /\ created
    /\ quote.op = "none"
    /\ \E m \in mints :
          quote' = Called("getMaxSwapOutAmount", << m >>, getMaxSwapOutAmount(this, m))
    /\ UNCHANGED << ledger, ctor, object, origin, task, calls >>

\* a getDepositQuote that keeps the supply it quoted against up to date:
\* the bootstrap quote's minted amount is added to the held supply
GetDepositQuote_UpdatesSupply(amounts, slippages) ==
    /\ created
    /\ quote.op = "none"
    /\ \E a \in amounts, b \in amounts, balance \in BOOLEAN, s \in slippages :
          LET result == getDepositQuote(this, a, b, balance, s)
          IN  /\ quote' = Called("getDepositQuote", << a, b, balance, s >>, result)
              /\ accountsInfo' =
                    IF result.regime = "bootstrap"
                    THEN [ accountsInfo EXCEPT !.poolLpSupply = @ + result.poolTokenAmountOut ]
                    ELSE accountsInfo
    /\ UNCHANGED << ledger, ctor, poolState, vaultA, vaultB, poolInfo, swapCurve,
                    depegAccounts, origin, task, calls >>

GetDepositQuote(amounts, slippages) ==
    /\ created
    /\ quote.op = "none"
    /\ \E a \in amounts, b \in amounts, balance \in BOOLEAN, s \in slippages :
          quote' = Called("getDepositQuote", << a, b, balance, s >>,
                          getDepositQuote(this, a, b, balance, s))
    /\ UNCHANGED << ledger, ctor, object, origin, task, calls >>

GetWithdrawQuote(amounts, slippages, mints) ==
    /\ created
    /\ quote.op = "none"
    /\ \E w \in amounts, s \in slippages, m \in mints :
          quote' = Called("getWithdrawQuote", << w, s, m >>, getWithdrawQuote(this, w, s, m))
    /\ UNCHANGED << ledger, ctor, object, origin, task, calls >>

\* lines 1184-1211: the escrow account is fetched (one await) and the rest
\* runs in one step on the held snapshot
GetUserLockEscrow(escrows) ==
    /\ created
    /\ quote.op = "none"
    /\ \E e \in escrows :
          quote' = Called("getUserLockEscrow", << e >>, getUserLockEscrow(this, e))
    /\ UNCHANGED << ledger, ctor, object, origin, task, calls >>

\* lines 1111-1182: the token accounts are looked up (awaits that read
\* nothing of the object), then the instruction is built in one step
Withdraw(lpTokenAmounts, amounts) ==
    /\ created
    /\ quote.op = "none"
    /\ \E lp \in lpTokenAmounts, a \in amounts, b \in amounts :
          quote' = Called("withdraw", << lp, a, b >>, withdraw(this, lp, a, b))
    /\ UNCHANGED << ledger, ctor, object, origin, task, calls >>

\* the caller takes the result; the calls are synchronous, one at a time
QuoteReturn ==
    /\ quote.op # "none"
    /\ quote' = NoQuote
    /\ UNCHANGED << ledger, ctor, object, origin, task, calls >>

(***************************************************************************)
(* Spec: the life of one AmmImpl, from AmmImpl.create on, with the ledger  *)
(* changing underneath, updateState calls overlapping, and quote calls in  *)
(* between.                                                                *)
(***************************************************************************)
Init ==
    /\ ledger \in StartLedgers
    /\ ctor = [ pc |-> "getPoolState", pending |-> {} ]
    /\ poolState = NoPoolState
    /\ vaultA = NoVaultState
    /\ vaultB = NoVaultState
    /\ accountsInfo = NoAccountsInfo
    /\ poolInfo = NoPoolInfo
    /\ swapCurve = ConstantProductSwap
    /\ depegAccounts = {}
    /\ origin = CreatedOrigin
    /\ task = [ c \in Calls |-> IdleTask ]
    /\ calls = 0
    /\ quote = NoQuote

Next ==
    \/ LedgerDeposit
    \/ CreateGetPoolState
    \/ \E v \in {"vaultA", "vaultB"} : CreateVault(v)
    \/ CreateGetAccountsBuffer
    \/ CreateConstruct
    \/ \E c \in Calls : UpdateStart(c)
    \/ \E c \in Calls, p \in {"pool", "vaultA", "vaultB"} : FetchResolved(c, p)
    \/ \E c \in Calls, p \in {"pool", "vaultA", "vaultB"} : FetchRejected(c, p)
    \/ \E c \in Calls : AccountsResolved(c)
    \/ \E c \in Calls : AccountsRejected(c)
    \/ \E c \in Calls : DepegResolved(c)
    \/ \E c \in Calls : DepegRejected(c)
    \/ GetSwapQuote({TokenAMint}, {1}, {0})
    \/ GetMaxSwapInAmount({TokenAMint})
    \/ GetMaxSwapOutAmount({TokenBMint})
    \/ GetDepositQuote({1}, {0})
    \/ GetWithdrawQuote({1}, {0}, {NoMint})
    \/ QuoteReturn

Spec == Init /\ [][Next]_vars

(***************************************************************************)
(* QuoteSpec: an AmmImpl constructed from any of the ledgers, and the      *)
(* quote operations called on it with every input.                         *)
(***************************************************************************)
QuoteInit ==
    /\ ledger \in Ledgers
    /\ ctor = [ pc |-> "done", pending |-> {} ]
    /\ poolState = getPoolState(ledger)
    /\ vaultA = vaultStateOf(ledger.a)
    /\ vaultB = vaultStateOf(ledger.b)
    /\ accountsInfo = getAccountsInfo(ledger)
    /\ swapCurve = ConstantProductSwap
    /\ poolInfo = poolInfoOf(accountsInfo, swapCurve, vaultA, vaultB)
    /\ depegAccounts = getDepegAccounts(ledger)
    /\ origin = CreatedOrigin
    /\ task = [ c \in Calls |-> IdleTask ]
    /\ calls = 0
    /\ quote = NoQuote

QuoteNext ==
    \/ GetSwapQuote(Mints, Inputs, Slippages)
    \/ GetMaxSwapInAmount(Mints)
    \/ GetMaxSwapOutAmount(Mints)
    \/ GetDepositQuote(Inputs, Slippages)
    \/ GetWithdrawQuote(Inputs, Slippages, Mints \cup {NoMint})
    \/ GetUserLockEscrow(LockEscrows \cup {NoLockEscrow})
    \/ Withdraw({1}, Inputs)
    \/ QuoteReturn

QuoteSpec == QuoteInit /\ [][QuoteNext]_vars

(***************************************************************************)
(* DepegSpec: the depegToken getter read on an AmmImpl constructed from    *)
(* any of the ledgers, with any of the token multipliers.                  *)
(***************************************************************************)
\* lines 471-494: the getter is read
DepegToken ==
    /\ created
    /\ quote.op = "none"
    /\ quote' = Called("depegToken", << >>, depegToken(this))
    /\ UNCHANGED << ledger, ctor, object, origin, task, calls >>

DepegInit ==
    /\ \E l \in Ledgers, m \in TokenMultipliers :
          ledger = [ l EXCEPT !.tokenMultiplier = m ]
    /\ ctor = [ pc |-> "done", pending |-> {} ]
    /\ poolState = getPoolState(ledger)
    /\ vaultA = vaultStateOf(ledger.a)
    /\ vaultB = vaultStateOf(ledger.b)
    /\ accountsInfo = getAccountsInfo(ledger)
    /\ swapCurve = ConstantProductSwap
    /\ poolInfo = poolInfoOf(accountsInfo, swapCurve, vaultA, vaultB)
    /\ depegAccounts = getDepegAccounts(ledger)
    /\ origin = CreatedOrigin
    /\ task = [ c \in Calls |-> IdleTask ]
    /\ calls = 0
    /\ quote = NoQuote

DepegNext ==
    \/ DepegToken
    \/ QuoteReturn

DepegSpec == DepegInit /\ [][DepegNext]_vars

(***************************************************************************)
(* ArithmeticSpec: the curve's computeOutAmount and the share conversions  *)
(* applied to every input drawn.                                           *)
(***************************************************************************)
\* largest reserve or amount drawn, besides the scenario's values
MaxReserve == 4

\* the swaps priced: << amount in, reserve in, reserve out >> over the small
\* values, and the scenario of 10,000 into reserves of 1,000,000 each
Swaps ==
    { << a, i, o >> : a \in 0..MaxReserve, i \in 0..MaxReserve, o \in 0..MaxReserve }
        \cup { << 10000, 1000000, 1000000 >> }

\* a function applied by a caller, and its value
Applied(op, args, amount) ==
    [ op |-> op, args |-> args, suspended |-> FALSE, torn |-> FALSE,
      result |-> [ status |-> "ok", err |-> "none", regime |-> "value", amount |-> amount ] ]

ComputeOutAmount ==
    /\ quote.op = "none"
    /\ \E swap \in Swaps :
          quote' = Applied("computeOutAmount", swap,
                           computeOutAmount(swap[1], swap[2], swap[3], AToB))
    /\ UNCHANGED << ledger, ctor, object, origin, task, calls >>

\* lines 1438-1442
GetShareByAmount ==
    /\ quote.op = "none"
    /\ \E amount \in 0..MaxReserve, tokenAmount \in 0..MaxReserve, lpSupply \in 0..MaxReserve, roundUp \in BOOLEAN :
          quote' = Applied("getShareByAmount", << amount, tokenAmount, lpSupply, roundUp >>,
                           getShareByAmount(amount, tokenAmount, lpSupply, roundUp))
    /\ UNCHANGED << ledger, ctor, object, origin, task, calls >>

\* lines 1444-1448
GetAmountByShare ==
    /\ quote.op = "none"
    /\ \E amount \in 0..MaxReserve, tokenAmount \in 0..MaxReserve, lpSupply \in 0..MaxReserve, roundUp \in BOOLEAN :
          quote' = Applied("getAmountByShare", << amount, tokenAmount, lpSupply, roundUp >>,
                           getAmountByShare(amount, tokenAmount, lpSupply, roundUp))
    /\ UNCHANGED << ledger, ctor, object, origin, task, calls >>

\* the positive amounts computeActualInAmount is applied to
ShareAmounts == {1, 2, 3}

\* lines 1419-1436; the value is the pair of input amounts
ComputeActualInAmount ==
    /\ quote.op = "none"
    /\ \E poolTokenAmount \in ShareAmounts, poolLpSupply \in ShareAmounts,
          poolVaultALp \in ShareAmounts, poolVaultBLp \in ShareAmounts,
          vaultALpSupply \in ShareAmounts, vaultBLpSupply \in ShareAmounts,
          vaultAWithdrawableAmount \in ShareAmounts, vaultBWithdrawableAmount \in ShareAmounts :
          quote' = Applied("computeActualInAmount",
                           << poolTokenAmount, poolLpSupply, poolVaultALp, poolVaultBLp,
                              vaultALpSupply, vaultBLpSupply,
                              vaultAWithdrawableAmount, vaultBWithdrawableAmount >>,
                           computeActualInAmount(poolTokenAmount, poolLpSupply, poolVaultALp, poolVaultBLp,
                                                 vaultALpSupply, vaultBLpSupply,
                                                 vaultAWithdrawableAmount, vaultBWithdrawableAmount))
    /\ UNCHANGED << ledger, ctor, object, origin, task, calls >>

ArithmeticInit ==
    /\ ledger \in StartLedgers
    /\ ctor = [ pc |-> "getPoolState", pending |-> {} ]
    /\ poolState = NoPoolState
    /\ vaultA = NoVaultState
    /\ vaultB = NoVaultState
    /\ accountsInfo = NoAccountsInfo
    /\ poolInfo = NoPoolInfo
    /\ swapCurve = ConstantProductSwap
    /\ depegAccounts = {}
    /\ origin = CreatedOrigin
    /\ task = [ c \in Calls |-> IdleTask ]
    /\ calls = 0
    /\ quote = NoQuote

ArithmeticNext ==
    \/ ComputeOutAmount
    \/ GetShareByAmount
    \/ GetAmountByShare
    \/ ComputeActualInAmount
    \/ QuoteReturn

ArithmeticSpec == ArithmeticInit /\ [][ArithmeticNext]_vars

(***************************************************************************)
(* RoundTripSpec: a bootstrap deposit into an empty pool is quoted, sent   *)
(* and applied by the remote program; the object is refreshed; then a      *)
(* balanced withdrawal of all the liquidity the quote promised is quoted.  *)
(***************************************************************************)
\* the remote program's side of a deposit into one vault: the vault mints
\* shares for the amount at its share price, rounded down (one share per
\* token when it has issued none), and the pool receives them
vaultDeposit(side, amount, clock) ==
    LET unlocked == calculateWithdrawableAmount(clock, vaultStateOf(side))
        minted == IF side.lpSupply = 0 \/ unlocked = 0 THEN amount
                  ELSE (amount * side.lpSupply) \div unlocked
    IN  [ side EXCEPT !.poolVaultLp = @ + minted,
                      !.lpSupply = @ + minted,
                      !.totalAmount = @ + amount,
                      !.reserve = @ + amount ]

\* the remote program's bootstrapLiquidity(tokenAInAmount, tokenBInAmount):
\* both amounts go into the vaults and the pool mints computeD of them
bootstrapLiquidity(l, tokenAInAmount, tokenBInAmount) ==
    [ l EXCEPT !.gen = @ + 1,
               !.lpSupply = computeD(tokenAInAmount, tokenBInAmount),
               !.a = vaultDeposit(l.a, tokenAInAmount, l.clock),
               !.b = vaultDeposit(l.b, tokenBInAmount, l.clock) ]

\* ledgers of an empty pool: it has issued no liquidity, holds no vault
\* share and has processed no deposit
EmptyLedgers ==
    { l \in Ledgers : l.lpSupply = 0 /\ l.a.poolVaultLp = 0 /\ l.b.poolVaultLp = 0 }

\* lines 943-1012: deposit sends bootstrapLiquidity with the quoted amounts
\* when the held lpSupply is zero, and the remote program applies it
Deposit ==
    /\ quote.op = "getDepositQuote"
    /\ quote.result.regime = "bootstrap"
    /\ poolState.lpSupply = 0
    /\ ledger \in EmptyLedgers
    /\ ledger' = bootstrapLiquidity(ledger, quote.args[1], quote.args[2])
    /\ quote' = [ quote EXCEPT !.op = "deposit" ]
    /\ UNCHANGED << ctor, object, origin, task, calls >>

\* lines 513-580: updateState run to its end with no other call in between
UpdateState ==
    /\ quote.op = "deposit"
    /\ poolState' = getPoolState(ledger)
    /\ vaultA' = vaultStateOf(ledger.a)
    /\ vaultB' = vaultStateOf(ledger.b)
    /\ accountsInfo' = getAccountsInfo(ledger)
    /\ depegAccounts' = getDepegAccounts(ledger)
    /\ swapCurve' = ConstantProductSwap
    /\ poolInfo' = poolInfoOf(accountsInfo', swapCurve', vaultA', vaultB')
    /\ quote' = [ quote EXCEPT !.op = "refreshed" ]
    /\ UNCHANGED << ledger, ctor, origin, task, calls >>

\* lines 1023-1064: the balanced withdraw quote of all the liquidity the
\* deposit quote promised; the record keeps the two amounts deposited
WithdrawAll ==
    /\ quote.op = "refreshed"
    /\ quote' = Called("roundTrip",
                       << quote.args[1], quote.args[2], quote.result.poolTokenAmountOut >>,
                       getWithdrawQuote(this, quote.result.poolTokenAmountOut, 0, NoMint))
    /\ UNCHANGED << ledger, ctor, object, origin, task, calls >>

RoundTripInit ==
    /\ ledger \in EmptyLedgers
    /\ ctor = [ pc |-> "done", pending |-> {} ]
    /\ poolState = getPoolState(ledger)
    /\ vaultA = vaultStateOf(ledger.a)
    /\ vaultB = vaultStateOf(ledger.b)
    /\ accountsInfo = getAccountsInfo(ledger)
    /\ swapCurve = ConstantProductSwap
    /\ poolInfo = poolInfoOf(accountsInfo, swapCurve, vaultA, vaultB)
    /\ depegAccounts = getDepegAccounts(ledger)
    /\ origin = CreatedOrigin
    /\ task = [ c \in Calls |-> IdleTask ]
    /\ calls = 0
    /\ quote = NoQuote

RoundTripNext ==
    \/ GetDepositQuote(Inputs, Slippages)
    \/ Deposit
    \/ UpdateState
    \/ WithdrawAll
    \/ QuoteReturn

RoundTripSpec == RoundTripInit /\ [][RoundTripNext]_vars

(***************************************************************************)
(* Properties.  The arguments and the result of the last quote are read    *)
(* from `quote`; the snapshot it ran against is the object's, which no     *)
(* step of QuoteSpec changes.                                              *)
(***************************************************************************)
DepositCalled == quote.op = "getDepositQuote"

depositA == quote.args[1]

depositB == quote.args[2]

depositBalance == quote.args[3]

depositSlippage == quote.args[4]

Finished == calls >= 2 /\ \A c \in 1..calls : task[c].pc = "idle" /\ task[c].outcome = "done"

\* C1: a quote made while an updateState call is suspended reads fields
\* that all come from one refresh (never some written by the suspended
\* call and some written before it).
C1_QuoteReadsOneRefresh ==
    (quote.op # "none" /\ quote.suspended) => ~quote.torn

\* C2: once two overlapping updateState calls have both completed, the held
\* poolState, accountsInfo and poolInfo were all written by the same call.
C2_CompletedRefreshesAgree ==
    Finished => /\ origin.poolState = origin.accountsInfo
                /\ origin.accountsInfo = origin.poolInfo

\* C3: an updateState call that has failed (the only call made so far) has
\* left poolState, accountsInfo, poolInfo and swapCurve exactly as they were
\* when it started.
C3_FailedRefreshChangesNothing ==
    (calls = 1 /\ task[1].outcome = "failed") => ~task[1].changed

\* C4: every step in which a quote operation runs, returning a quote or
\* failing, leaves poolState, the vault states, accountsInfo, poolInfo,
\* swapCurve and depegAccounts unchanged.
C4_QuotesLeaveStateUnchanged ==
    [][(quote.op = "none" /\ quote'.op # "none") => UNCHANGED object]_vars

\* C4 witness: a quote operation has run and failed on a funded pool.
C4_Witness ==
    /\ quote.op = "getWithdrawQuote"
    /\ quote.result.status = "error"
    /\ accountsInfo.poolLpSupply # 0

\* C5 as stated: on a snapshot whose poolLpSupply is 0 every getDepositQuote
\* call returns the bootstrap quote, whatever the amounts and the flag.
C5_AlwaysBootstrap ==
    (DepositCalled /\ accountsInfo.poolLpSupply = 0)
        => (quote.result.status = "ok" /\ quote.result.regime = "bootstrap")

\* C5 amended: on a snapshot whose poolLpSupply is 0, getDepositQuote returns
\* the bootstrap quote for both values of the balance flag unless both
\* amounts are non-zero and the flag is set, in which case it fails with
\* the invalid-input error.
C5_BootstrapUnlessDualBalanced ==
    (DepositCalled /\ accountsInfo.poolLpSupply = 0)
        => IF depositA # 0 /\ depositB # 0 /\ depositBalance
           THEN /\ quote.result.status = "error"
                /\ quote.result.err = "Deposit balance is not possible when both token in amount is non-zero"
           ELSE /\ quote.result.status = "ok"
                /\ quote.result.regime = "bootstrap"

\* C5 witness: a balanced single-sided call on an empty pool took bootstrap.
C5_Witness ==
    /\ DepositCalled
    /\ accountsInfo.poolLpSupply = 0
    /\ depositBalance
    /\ depositA = 0
    /\ depositB # 0
    /\ quote.result.regime = "bootstrap"

\* C6: a bootstrap quote has poolTokenAmountOut = computeD of the two inputs,
\* minPoolTokenAmountOut = poolTokenAmountOut whatever the slippage, and
\* returns the two input amounts unchanged.
C6_BootstrapQuote ==
    (DepositCalled /\ quote.result.regime = "bootstrap")
        => /\ quote.result.poolTokenAmountOut = computeD(depositA, depositB)
           /\ quote.result.minPoolTokenAmountOut = quote.result.poolTokenAmountOut
           /\ quote.result.tokenAInAmount = depositA
           /\ quote.result.tokenBInAmount = depositB

\* C6 witness: a bootstrap quote of a non-zero amount under full slippage.
C6_Witness ==
    /\ DepositCalled
    /\ quote.result.regime = "bootstrap"
    /\ depositSlippage = 10000
    /\ quote.result.poolTokenAmountOut > 0

\* C7: getDepositQuote with both amounts non-zero and balance set fails and
\* returns no quote, for every pool type and every liquidity supply.
C7_DualBalancedFails ==
    (DepositCalled /\ depositA # 0 /\ depositB # 0 /\ depositBalance)
        => /\ quote.result.status = "error"
           /\ quote.result.err \in
                { "Deposit balance is not possible when both token in amount is non-zero",
                  "Constant product only supports balanced deposit" }

\* C7 witness: the call failed on a stable pool with no liquidity.
C7_Witness ==
    /\ DepositCalled
    /\ depositA # 0 /\ depositB # 0 /\ depositBalance
    /\ poolState.curveType = "stable"
    /\ accountsInfo.poolLpSupply = 0
    /\ quote.result.status = "error"

\* C8: on a constant-product pool, getDepositQuote with both amounts non-zero
\* fails when poolLpSupply is non-zero, and is accepted when poolLpSupply is
\* 0 and the balance flag is not set.
C8_ConstantProductDualSided ==
    (DepositCalled /\ poolState.curveType = "constantProduct"
                   /\ depositA # 0 /\ depositB # 0)
        => /\ accountsInfo.poolLpSupply # 0 => quote.result.status = "error"
           /\ (accountsInfo.poolLpSupply = 0 /\ ~depositBalance)
                 => quote.result.status = "ok"

\* C8 witness: the dual-sided call was accepted on an empty constant-product
\* pool.
C8_Witness ==
    /\ DepositCalled
    /\ poolState.curveType = "constantProduct"
    /\ depositA # 0 /\ depositB # 0 /\ ~depositBalance
    /\ accountsInfo.poolLpSupply = 0
    /\ quote.result.status = "ok"

\* C9 as stated: with poolLpSupply non-zero the deposit is priced through
\* computeImbalanceDeposit exactly when both amounts are non-zero and the
\* balance flag is not set.
C9_ImbalanceOnlyDualSided ==
    (DepositCalled /\ accountsInfo.poolLpSupply # 0)
        => (quote.result.regime = "imbalance"
              <=> (depositA # 0 /\ depositB # 0 /\ ~depositBalance))

\* C9 amended: with poolLpSupply non-zero the deposit is priced through
\* computeImbalanceDeposit exactly when the balance flag is not set and the
\* call is not a dual-sided one on a constant-product pool (which fails);
\* a call with one amount zero and the flag not set does reach it.
C9_ImbalanceWhenNotBalanced ==
    (DepositCalled /\ accountsInfo.poolLpSupply # 0)
        => (quote.result.regime = "imbalance"
              <=> /\ ~depositBalance
                  /\ \/ poolState.curveType = "stable"
                     \/ depositA = 0
                     \/ depositB = 0)

\* C9 witness: a call with one amount zero was priced as an imbalanced
\* deposit.
C9_Witness ==
    /\ DepositCalled
    /\ accountsInfo.poolLpSupply # 0
    /\ depositA = 0 /\ depositB # 0 /\ ~depositBalance
    /\ quote.result.regime = "imbalance"

\* the round-down share of the supplied amount in a balanced deposit
C10_Share ==
    LET amount == IF depositA = 0 THEN depositB ELSE depositA
        poolAmount == IF depositA = 0 THEN poolInfo.tokenBAmount ELSE poolInfo.tokenAAmount
    IN  IF poolAmount = 0 THEN 0
        ELSE (amount * accountsInfo.poolLpSupply) \div poolAmount

\* C10: a quote of the single-asset balanced regime has poolTokenAmountOut =
\* the round-down share of the supplied amount reduced by
\* UNLOCK_AMOUNT_BUFFER, minPoolTokenAmountOut = that amount reduced by the
\* slippage, and minPoolTokenAmountOut <= poolTokenAmountOut <= the share.
C10_BalancedQuote ==
    (/\ DepositCalled
     /\ accountsInfo.poolLpSupply # 0
     /\ depositBalance
     /\ (depositA = 0) # (depositB = 0)
     /\ quote.result.status = "ok")
        => /\ quote.result.regime = (IF depositA = 0 THEN "balancedB" ELSE "balancedA")
           /\ quote.result.poolTokenAmountOut
                 = (C10_Share * (10000 - UNLOCK_AMOUNT_BUFFER)) \div 10000
           /\ quote.result.minPoolTokenAmountOut
                 = (quote.result.poolTokenAmountOut * (10000 - depositSlippage)) \div 10000
           /\ quote.result.minPoolTokenAmountOut <= quote.result.poolTokenAmountOut
           /\ quote.result.poolTokenAmountOut <= C10_Share

\* C10 witness: a balanced quote where the buffer and the slippage each
\* took something off.
C10_Witness ==
    /\ DepositCalled
    /\ accountsInfo.poolLpSupply # 0
    /\ depositBalance
    /\ depositA # 0 /\ depositB = 0
    /\ quote.result.status = "ok"
    /\ quote.result.minPoolTokenAmountOut < quote.result.poolTokenAmountOut
    /\ quote.result.poolTokenAmountOut < C10_Share

SwapCalled == quote.op = "getSwapQuote"

swapMint == quote.args[1]

swapIn == quote.args[2]

swapSlippage == quote.args[3]

\* the curve's output for the input of the last swap quote: the input less
\* the trade fee, priced against the pool's two token amounts
C11_CurveOutput ==
    LET source == IF swapMint = TokenAMint THEN poolInfo.tokenAAmount ELSE poolInfo.tokenBAmount
        destination == IF swapMint = TokenAMint THEN poolInfo.tokenBAmount ELSE poolInfo.tokenAAmount
    IN  computeOutAmount(swapIn - quote.result.fee, source, destination,
                         IF swapMint = TokenAMint THEN AToB ELSE BToA)

\* C11: every swap quote returned has minSwapOutAmount <= swapOutAmount and
\* minSwapOutAmount = swapOutAmount * (10000 - slippage) / 10000 rounded
\* down, with swapOutAmount the curve's output for the input.
C11_SwapSlippageBound ==
    (SwapCalled /\ quote.result.status = "ok")
        => /\ quote.result.swapOutAmount = C11_CurveOutput
           /\ quote.result.minSwapOutAmount <= quote.result.swapOutAmount
           /\ quote.result.minSwapOutAmount
                 = (quote.result.swapOutAmount * (10000 - swapSlippage)) \div 10000

\* C11 witness: a swap quote whose minimum is below its non-zero output.
C11_Witness ==
    /\ SwapCalled
    /\ quote.result.status = "ok"
    /\ swapSlippage = 100
    /\ quote.result.swapOutAmount > 0
    /\ quote.result.minSwapOutAmount < quote.result.swapOutAmount

WithdrawCalled == quote.op = "getWithdrawQuote"

withdrawAmount == quote.args[1]

withdrawSlippage == quote.args[2]

withdrawMint == quote.args[3]

\* a withdrawal of no more liquidity than the pool has issued, or a balanced
\* one
WithdrawInDomain ==
    withdrawMint = NoMint \/ withdrawAmount <= accountsInfo.poolLpSupply

C13_Out(poolVaultLp, vaultState, vaultLpSupply) ==
    LET burn == IF accountsInfo.poolLpSupply = 0 THEN 0
                ELSE (withdrawAmount * poolVaultLp) \div accountsInfo.poolLpSupply
        withdrawable == calculateWithdrawableAmount(accountsInfo.currentTime, vaultState)
    IN  IF vaultLpSupply = 0 THEN 0
        ELSE (burn * withdrawable) \div vaultLpSupply

\* C13: a balanced getWithdrawQuote of w liquidity tokens returns for each
\* side floor(floor(w * poolVaultXLp / poolLpSupply) * vaultXWithdrawable /
\* vaultXLpSupply), the inner term 0 when poolLpSupply is 0 and the outer 0
\* when vaultXLpSupply is 0, and poolTokenAmountIn = w.
C13_BalancedWithdraw ==
    (WithdrawCalled /\ withdrawMint = NoMint)
        => /\ quote.result.status = "ok"
           /\ quote.result.poolTokenAmountIn = withdrawAmount
           /\ quote.result.tokenAOutAmount
                 = C13_Out(accountsInfo.poolVaultALp, vaultA, accountsInfo.vaultALpSupply)
           /\ quote.result.tokenBOutAmount
                 = C13_Out(accountsInfo.poolVaultBLp, vaultB, accountsInfo.vaultBLpSupply)

\* C13 witness: a balanced withdraw quote where rounding down took something
\* off: two of three liquidity tokens against a vault whose shares are worth
\* less than a token each.
C13_Witness ==
    /\ WithdrawCalled
    /\ withdrawMint = NoMint
    /\ withdrawAmount = 2
    /\ accountsInfo.poolLpSupply = 3
    /\ accountsInfo.vaultALpSupply = 4
    /\ quote.result.tokenAOutAmount = 1

\* C14: getWithdrawQuote of 0 liquidity tokens returns 0 for both expected
\* amounts and both minimums on every snapshot, on the balanced path and on
\* the single-sided path for either token, without failing.
C14_ZeroWithdrawYieldsZero ==
    (WithdrawCalled /\ withdrawAmount = 0 /\ withdrawMint \in {NoMint, TokenAMint, TokenBMint})
        => /\ quote.result.status = "ok"
           /\ quote.result.tokenAOutAmount = 0
           /\ quote.result.tokenBOutAmount = 0
           /\ quote.result.minTokenAOutAmount = 0
           /\ quote.result.minTokenBOutAmount = 0

\* computeWithdrawOne's result for the last single-sided withdraw quote
C15_Out ==
    computeWithdrawOne(withdrawAmount, accountsInfo.poolLpSupply,
                       poolInfo.tokenAAmount, poolInfo.tokenBAmount, poolState.fees,
                       IF withdrawMint = TokenAMint THEN BToA ELSE AToB)

\* that amount turned into shares of the requested token's vault and back,
\* rounding down both times
C15_ShareRounded ==
    LET vaultLpSupply == IF withdrawMint = TokenAMint THEN accountsInfo.vaultALpSupply ELSE accountsInfo.vaultBLpSupply
        withdrawable == calculateWithdrawableAmount(accountsInfo.currentTime, IF withdrawMint = TokenAMint THEN vaultA ELSE vaultB)
    IN  (((C15_Out * vaultLpSupply) \div withdrawable) * withdrawable) \div vaultLpSupply

C17_MaxOutLeavesOneUnit ==
    (quote.op = "getMaxSwapOutAmount" /\ quote.result.status = "ok")
        => LET poolAmount == IF quote.args[1] = TokenAMint THEN poolInfo.tokenAAmount ELSE poolInfo.tokenBAmount
           IN  poolAmount > 0 => quote.result.amount <= poolAmount - 1

MaxInCalled == quote.op = "getMaxSwapInAmount"

\* the most of the other token that getMaxSwapInAmount lets out of the pool:
\* getMaxSwapOutAmount of it, less 1 when that is the pool's whole amount
C18_MaxOut ==
    LET aToB == quote.args[1] = TokenAMint
        destination == IF aToB THEN poolInfo.tokenBAmount ELSE poolInfo.tokenAAmount
        reserve == IF aToB THEN accountsInfo.vaultBReserve ELSE accountsInfo.vaultAReserve
        maxOut == IF destination < reserve THEN destination ELSE reserve
    IN  IF maxOut = destination THEN maxOut - 1 ELSE maxOut

\* the input the curve asks for that output
C18_In ==
    LET aToB == quote.args[1] = TokenAMint
    IN  computeInAmount(C18_MaxOut,
                        IF aToB THEN poolInfo.tokenAAmount ELSE poolInfo.tokenBAmount,
                        IF aToB THEN poolInfo.tokenBAmount ELSE poolInfo.tokenAAmount,
                        IF aToB THEN AToB ELSE BToA)

C19_ForeignMintFails ==
    /\ (MaxInCalled /\ quote.args[1] \notin {TokenAMint, TokenBMint})
          => (quote.result.status = "error" /\ quote.result.err = "INVALID_MINT")
    /\ (WithdrawCalled /\ withdrawMint \notin {NoMint, TokenAMint, TokenBMint})
          => (quote.result.status = "error" /\ quote.result.err = "INVALID_MINT")

\* C19 witness: getMaxSwapInAmount was called with a foreign mint on a
\* funded pool and failed.
C19_Witness ==
    /\ MaxInCalled
    /\ quote.args[1] = ForeignMint
    /\ poolInfo.tokenAAmount > 0
    /\ poolInfo.tokenBAmount > 0
    /\ quote.result.status = "error"

\* C20: a ratio division by a zero supply, reserve or pool token amount
\* yields 0 instead of failing: a stable pool's balanced deposit quote with
\* the supplied token's pool amount equal to 0, and a single-sided withdraw
\* quote with the target vault's withdrawable amount or share supply equal
\* to 0, return a quote with 0 for the derived amount.
C20_ZeroDenominatorYieldsZero ==
    /\ (/\ DepositCalled
        /\ poolState.curveType = "stable"
        /\ accountsInfo.poolLpSupply # 0
        /\ depositBalance
        /\ depositA = 0
        /\ depositB # 0
        /\ poolInfo.tokenBAmount = 0)
          => (quote.result.status = "ok" /\ quote.result.tokenAInAmount = 0)
    /\ (/\ DepositCalled
        /\ poolState.curveType = "stable"
        /\ accountsInfo.poolLpSupply # 0
        /\ depositBalance
        /\ depositA # 0
        /\ depositB = 0
        /\ poolInfo.tokenAAmount = 0)
          => (quote.result.status = "ok" /\ quote.result.tokenBInAmount = 0)
    /\ (/\ WithdrawCalled
        /\ withdrawMint = TokenAMint
        /\ \/ calculateWithdrawableAmount(accountsInfo.currentTime, vaultA) = 0
           \/ accountsInfo.vaultALpSupply = 0)
          => (quote.result.status = "ok" /\ quote.result.tokenAOutAmount = 0)
    /\ (/\ WithdrawCalled
        /\ withdrawMint = TokenBMint
        /\ \/ calculateWithdrawableAmount(accountsInfo.currentTime, vaultB) = 0
           \/ accountsInfo.vaultBLpSupply = 0)
          => (quote.result.status = "ok" /\ quote.result.tokenBOutAmount = 0)

(***************************************************************************)
(* Locked liquidity, depeg detection, the curve and the share conversions. *)
(***************************************************************************)
EscrowCalled == quote.op = "getUserLockEscrow"

escrowAccount == quote.args[1]

\* C21: getUserLockEscrow returns null when the owner has no lock escrow;
\* otherwise its unclaimed fee in liquidity tokens is totalLockedAmount *
\* (virtual price of the held snapshot - stored lpPerToken) +
\* unclaimedFeePending, and its unclaimed token A and token B amounts are
\* those of the balanced withdraw quote of that many liquidity tokens at
\* slippage 0.
C21_UnclaimedLockEscrowFee ==
    EscrowCalled =>
        IF ~escrowAccount.found
        THEN quote.result.status = "ok" /\ quote.result.regime = "null"
        ELSE LET lp == escrowAccount.totalLockedAmount
                          * (poolInfo.virtualPriceRaw - escrowAccount.lpPerToken)
                       + escrowAccount.unclaimedFeePending
                 w == getWithdrawQuote(this, lp, 0, NoMint)
             IN  /\ quote.result.status = "ok"
                 /\ quote.result.regime = "escrow"
                 /\ quote.result.lp = lp
                 /\ w.regime = "balanced"
                 /\ quote.result.tokenA = w.tokenAOutAmount
                 /\ quote.result.tokenB = w.tokenBOutAmount

\* an escrow whose unclaimed fee is worth something in both tokens
C21_Witness ==
    /\ EscrowCalled
    /\ escrowAccount.found
    /\ escrowAccount.totalLockedAmount > 0
    /\ poolInfo.virtualPriceRaw > escrowAccount.lpPerToken
    /\ quote.result.lp > 0
    /\ quote.result.tokenA > 0
    /\ quote.result.tokenB > 0

DepegCalled == quote.op = "depegToken"

\* the multiplier-normalized amounts of the held snapshot
normalizedA == poolInfo.tokenAAmount * poolState.tokenMultiplier.tokenAMultiplier

normalizedB == poolInfo.tokenBAmount * poolState.tokenMultiplier.tokenBMultiplier

\* C22: for a stable pool, depegToken is token X exactly when X's
\* multiplier-normalized amount is more than 95% of the sum of both
\* normalized amounts, and null otherwise; it is null for every non-stable
\* pool and when the total is 0.
C22_DepegAboveNinetyFivePercent ==
    DepegCalled =>
        quote.result.token =
            IF ~isStablePool(this) \/ normalizedA + normalizedB = 0 THEN "null"
            ELSE IF 100 * normalizedA > 95 * (normalizedA + normalizedB) THEN TokenAMint
            ELSE IF 100 * normalizedB > 95 * (normalizedA + normalizedB) THEN TokenBMint
            ELSE "null"

OutAmountCalled == quote.op = "computeOutAmount"

amountIn == quote.args[1]

reserveIn == quote.args[2]

reserveOut == quote.args[3]

\* the claim's domain: both reserves positive, 0 < amountIn < reserveIn
C23_InDomain ==
    OutAmountCalled /\ reserveIn > 0 /\ reserveOut > 0 /\ 0 < amountIn /\ amountIn < reserveIn

\* C23 (as stated): for all reserveIn > 0, reserveOut > 0 and
\* 0 < amountIn < reserveIn, the constant-product computeOutAmount yields
\* 0 < amountOut < reserveOut.
C23_OutStrictlyBetween ==
    C23_InDomain =>
        0 < quote.result.amount /\ quote.result.amount < reserveOut

\* C23 (amended): on that domain 0 <= amountOut < reserveOut, and amountOut
\* is 0 exactly when amountIn is too small to buy one unit, that is when
\* amountIn * reserveOut < reserveIn + amountIn (written with a quotient:
\* for positive integers, a * o < n is o <= (n - 1) / a rounded down).
C23_OutBelowReserve ==
    C23_InDomain =>
        /\ 0 <= quote.result.amount
        /\ quote.result.amount < reserveOut
        /\ (quote.result.amount = 0) = (reserveOut <= (reserveIn + amountIn - 1) \div amountIn)

\* both cases of the amended statement arise: an input that buys nothing ...
C23_Witness ==
    C23_InDomain /\ reserveOut > 1 /\ quote.result.amount = 0

\* C24: on a constant-product pool with no fee and reserves 1,000,000 and
\* 1,000,000, swapping in 10,000 of A gives exactly 9,900 of B.
C24_ScenarioGivesNineThousandNineHundred ==
    (OutAmountCalled /\ amountIn = 10000 /\ reserveIn = 1000000 /\ reserveOut = 1000000) =>
        quote.result.amount = 9900

C24_Witness ==
    /\ OutAmountCalled
    /\ amountIn = 10000 /\ reserveIn = 1000000 /\ reserveOut = 1000000
    /\ quote.result.amount = 9900

ShareCalled == quote.op = "getShareByAmount"

AmountCalled == quote.op = "getAmountByShare"

\* the arguments of a share conversion
convAmount == quote.args[1]

convTokenAmount == quote.args[2]

convLpSupply == quote.args[3]

convRoundUp == quote.args[4]

\* C25: with round-down, getShareByAmount(amount, tokenAmount, lpSupply) is
\* floor(amount * lpSupply / tokenAmount) when tokenAmount # 0 and 0 when
\* tokenAmount = 0; getAmountByShare(amount, tokenAmount, lpSupply) is
\* floor(amount * tokenAmount / lpSupply) when lpSupply # 0 and 0 when
\* lpSupply = 0; neither fails on a zero divisor.
C25_RoundDownConversions ==
    /\ (ShareCalled /\ ~convRoundUp) =>
          /\ quote.result.status = "ok"
          /\ quote.result.amount =
                IF convTokenAmount = 0 THEN 0
                ELSE (convAmount * convLpSupply) \div convTokenAmount
    /\ (AmountCalled /\ ~convRoundUp) =>
          /\ quote.result.status = "ok"
          /\ quote.result.amount =
                IF convLpSupply = 0 THEN 0
                ELSE (convAmount * convTokenAmount) \div convLpSupply

\* a round-down conversion that drops more than half a unit
C25_Witness ==
    /\ ShareCalled
    /\ ~convRoundUp
    /\ convTokenAmount # 0
    /\ 2 * ((convAmount * convLpSupply) % convTokenAmount) > convTokenAmount
    /\ quote.result.amount > 0

\* C26: with roundUp = true, getShareByAmount and getAmountByShare return
\* the ceiling of the exact quotient (never less than it), so the input
\* amounts computeActualInAmount derives are never below the exact
\* proportional amounts poolTokenAmount * poolVaultXLp / poolLpSupply *
\* vaultXWithdrawableAmount / vaultXLpSupply.
C26_RoundUpIsCeiling ==
    /\ (ShareCalled /\ convRoundUp /\ convTokenAmount # 0) =>
          /\ quote.result.amount * convTokenAmount >= convAmount * convLpSupply
          /\ (quote.result.amount - 1) * convTokenAmount < convAmount * convLpSupply
    /\ (AmountCalled /\ convRoundUp /\ convLpSupply # 0) =>
          /\ quote.result.amount * convLpSupply >= convAmount * convTokenAmount
          /\ (quote.result.amount - 1) * convLpSupply < convAmount * convTokenAmount
    /\ quote.op = "computeActualInAmount" =>
          /\ quote.result.amount[1] * quote.args[2] * quote.args[5]
                >= quote.args[1] * quote.args[3] * quote.args[7]
          /\ quote.result.amount[2] * quote.args[2] * quote.args[6]
                >= quote.args[1] * quote.args[4] * quote.args[8]

(***************************************************************************)
(* The held snapshot as deposit and withdraw use it.                       *)
(***************************************************************************)
\* no updateState call is under way
Quiescent == created /\ \A c \in Calls : task[c].outcome # "running"

\* C27: after any sequence of create and updateState calls,
\* poolState.lpSupply (read by deposit to choose bootstrapLiquidity) equals
\* accountsInfo.poolLpSupply (read by getDepositQuote to choose the bootstrap
\* regime), so the two choose bootstrap together.
C27_QuoteAndDepositAgree ==
    Quiescent =>
        /\ poolState.lpSupply = accountsInfo.poolLpSupply
        /\ (poolState.lpSupply = 0) = (accountsInfo.poolLpSupply = 0)

\* C28: getMaxSwapInAmount never works with a negative amount: on every
\* pool state, a pool holding none of the destination token included, and
\* every fee schedule, the out amount handed to computeInAmount is >= 0 and
\* the returned maximum input is >= 0.
C28_MaxInNeverNegative ==
    (MaxInCalled /\ quote.result.status = "ok") =>
        /\ quote.result.maxOutAmount >= 0
        /\ quote.result.amount >= 0

\* C29: after create and after every updateState, the active swap curve
\* is the variant poolState.curveType names: isStablePool is true exactly
\* when the curve used for quotes is the Stable variant, that is, of the two
\* variants, not the constant-product one.
C29_CurveMatchesCurveType ==
    Quiescent => (isStablePool(this) = (swapCurve # ConstantProductSwap))

WithdrawTxCalled == quote.op = "withdraw"

\* C30: withdraw submits the caller's minimum output as the on-chain bound
\* in every path: for a stable pool with exactly one of tokenAOutAmount /
\* tokenBOutAmount zero it builds the single-side removal towards the
\* non-zero side's token account with that side's amount as the minimum,
\* and otherwise the balanced removal with (tokenAOutAmount,
\* tokenBOutAmount) as minimums.
C30_WithdrawSubmitsMinimums ==
    WithdrawTxCalled =>
        LET tokenAOutAmount == quote.args[2]
            tokenBOutAmount == quote.args[3]
        IN  IF isStablePool(this) /\ ((tokenAOutAmount = 0) # (tokenBOutAmount = 0))
            THEN /\ quote.result.method = "removeLiquiditySingleSide"
                 /\ quote.result.userDestinationToken =
                       IF tokenAOutAmount # 0 THEN TokenAMint ELSE TokenBMint
                 /\ quote.result.minimumOutAmount =
                       IF tokenAOutAmount # 0 THEN tokenAOutAmount ELSE tokenBOutAmount
            ELSE /\ quote.result.method = "removeBalanceLiquidity"
                 /\ quote.result.minimumAOutAmount = tokenAOutAmount
                 /\ quote.result.minimumBOutAmount = tokenBOutAmount

=============================================================================
